---- MODULE Spec2Model ----
(***************************************************************************)
(* jobsim: a discrete-event simulator of a tiered worker pool.             *)
(*                                                                         *)
(* The module models                                                       *)
(*   - EventQueue (src/src/event_queue.py): a binary heap of events that   *)
(*     compares events by timestamp only, sifted as heapq sifts it;        *)
(*   - WorkerPool (src/src/jobsim/workers_model.py);                       *)
(*   - the kernel SimState (src/src/jobsim/jobsim.py): run() pops one      *)
(*     event and runs its handler to completion, nested calls included.    *)
(*                                                                         *)
(* Objects are referred to by index: a job by its position in the seeded   *)
(* list (variable jobs), a worker by its position in WorkerPool.workers.   *)
(***************************************************************************)
EXTENDS Integers, Sequences, FiniteSets, TLC

VARIABLES
  worker_definitions,  \* sim_config.CONFIG.worker_definitions of the run
  POOL_PROPERTIES,     \* module-global dict, as a sequence of <<tag, PoolProperties>> in insertion order
  pool_priorities,     \* WorkerPool.pool_priorities (sorted)
  workers,             \* WorkerPool.workers: sequence of Worker records
  _events,             \* EventQueue._events: the heap list
  _event_count,        \* EventQueue._event_count
  pending_jobs,        \* SimState.pending_jobs: job indexes
  completed_jobs,      \* SimState.completed_jobs: job indexes
  jobs,                \* the Job objects passed to init_jobs_in_queue
  popped,              \* history: the events popped by run(), in order
  status_log,          \* history: the set_worker_status calls of the last handled event
  busy_until,          \* history: per worker, the WORKER_DONE time of its last assignment
  pending_log,         \* history: job indexes in the order they were appended to pending_jobs
  ret,                 \* the value returned by the last EventQueue.pop()
  pushes,              \* number of EventQueue.push calls made so far (payload of queue-only runs)
  acquired,            \* history: the values returned by acquire_in_pool_worker_prioritized (pool-only runs)
  allocated,           \* the value returned by the last allocate_ready_worker (pool-only runs)
  statistics,          \* what print_statistics computed, or the exception it raised
  job_types,           \* sim_config.CONFIG.job_types: the shuffled bag of job classes
  user_types,          \* sim_config.CONFIG.user_types: the shuffled bag of user classes
  user_type_index,     \* JobGenerator.user_type_index
  job_type_index,      \* JobGenerator.job_type_index
  job_id,              \* JobGenerator.job_id
  start_time,          \* generate_jobs: argument start_time of the current call
  end_time,            \* generate_jobs: argument end_time of the current call
  time,                \* generate_jobs: local variable time
  calls,               \* history: number of generate_jobs calls started on the generator
  returned,            \* the list returned by the last generate_jobs call
  job_object,          \* serialization runs: the Job object
  json_str,            \* serialization runs: the string to_json() returned for the Job
                       \* as it is now, as characters; empty after the Job was changed
  parsed_job,          \* serialization runs: the Job built from the parsed string; none
                       \* after the Job was changed
  hist_data,           \* histogram runs: the list passed to SimHistogram(data)
  histogram,           \* histogram runs: the fields of the SimHistogram object
  val_index,           \* histogram runs: number of values the counting loop has taken
  first_run,           \* history: whether run() of an earlier SimState of this process has
                       \* returned, with the workers it was built with and its completed list
  pc                   \* position of the driver: "init", "run", "done" (kernel), "queue" (queue-only runs)
                       \* or "pool" (pool-only runs)

vars == <<worker_definitions, POOL_PROPERTIES, pool_priorities, workers, _events,
          _event_count, pending_jobs, completed_jobs, jobs, popped, status_log,
          busy_until, pending_log, ret, pushes, acquired, allocated, statistics,
          job_types, user_types, user_type_index, job_type_index, job_id,
          start_time, end_time, time, calls, returned, job_object, json_str,
          parsed_job, hist_data, histogram, val_index, first_run, pc>>

kernelVars == <<worker_definitions, POOL_PROPERTIES, pool_priorities, workers,
                pending_jobs, completed_jobs, jobs, popped, status_log,
                busy_until, pending_log>>

poolVars == <<acquired, allocated>>

genVars == <<job_types, user_types, user_type_index, job_type_index, job_id,
             start_time, end_time, time, calls, returned>>

serVars == <<job_object, json_str, parsed_job>>

histVars == <<hist_data, histogram, val_index>>

\* the variables of the job generator, of the serialization runs, of the statistics
\* and of the histogram runs
auxVars == <<genVars, serVars, statistics, histVars, first_run>>

----------------------------------------------------------------------------
(* Bounds of the model *)

\* kernel runs: total number of workers, number of seeded jobs, latest submission time
MaxWorkers == 2
MaxJobs == 2
MaxSubmission == 2
\* scenario runs: number of seeded jobs
MaxScenarioJobs == 3
MaxBacklogJobs == 4
\* queue-only runs: number of pushes, largest timestamp
MaxPushes == 5
MaxTimestamp == 1
\* pool-only runs: number of consecutive acquire_in_pool_worker_prioritized calls recorded
MaxAcquires == 2
\* generator runs: number of generate_jobs calls, largest start or end time, largest
\* interarrival time, number of jobs generated
MaxGenCalls == 2
MaxEndTime == 2
MaxGap == 2
MaxGenJobs == 4

----------------------------------------------------------------------------
(* Values *)

None == -1
NoneType == "None"

IN_POOL == "in_pool"
READY == "ready"
BUSY == "busy"

JOB_SUBMITTED == "job_submitted"
WORKER_DONE == "worker_done"
WORKER_READY == "worker_ready"
WORKER_TO_POOL == "worker_to_pool"

EventType == {JOB_SUBMITTED, WORKER_DONE, WORKER_READY, WORKER_TO_POOL}

Event(timestamp, event_type, data) ==
  [timestamp |-> timestamp, event_type |-> event_type, data |-> data]

NoEvent == Event(None, NoneType, None)

----------------------------------------------------------------------------
(* EventQueue: heapq over events ordered by Event.__lt__ *)

EventLt(a, b) == a.timestamp < b.timestamp

\* heapq._siftdown(heap, startpos, pos), positions 0-based; newitem is heap[pos]
RECURSIVE SiftDownLoop(_, _, _, _)
SiftDownLoop(heap, startpos, pos, newitem) ==
  IF pos > startpos
  THEN LET parentpos == (pos - 1) \div 2
           parent == heap[parentpos + 1]
       IN IF EventLt(newitem, parent)
          THEN SiftDownLoop([heap EXCEPT ![pos + 1] = parent], startpos, parentpos, newitem)
          ELSE [heap EXCEPT ![pos + 1] = newitem]
  ELSE [heap EXCEPT ![pos + 1] = newitem]

SiftDown(heap, startpos, pos) == SiftDownLoop(heap, startpos, pos, heap[pos + 1])

\* variant: the item moved to the root is left where it is
SiftUpSkipped(heap, pos) == heap

\* heapq._siftup(heap, pos): bubble the smaller child up to a leaf, then sift down
RECURSIVE SiftUpLoop(_, _, _, _)
SiftUpLoop(heap, startpos, pos, newitem) ==
  LET endpos == Len(heap)
      leftpos == 2 * pos + 1
      rightpos == leftpos + 1
  IN IF leftpos < endpos
     THEN LET childpos == IF rightpos < endpos
                             /\ ~EventLt(heap[leftpos + 1], heap[rightpos + 1])
                          THEN rightpos ELSE leftpos
          IN SiftUpLoop([heap EXCEPT ![pos + 1] = heap[childpos + 1]], startpos, childpos, newitem)
     ELSE SiftDown([heap EXCEPT ![pos + 1] = newitem], startpos, pos)

SiftUp(heap, pos) == SiftUpLoop(heap, pos, pos, heap[pos + 1])

\* heapq.heappush
HeapPush(heap, item) == SiftDown(Append(heap, item), 0, Len(heap))

\* variant: list.pop() in place of heappop
HeapPopLast(heap) == <<heap[Len(heap)], SubSeq(heap, 1, Len(heap) - 1)>>

\* heapq.heappop on a non-empty heap: <<returned item, remaining heap>>
HeapPop(heap) ==
  LET lastelt == heap[Len(heap)]
      rest == SubSeq(heap, 1, Len(heap) - 1)
  IN IF rest # <<>>
     THEN <<rest[1], SiftUp([rest EXCEPT ![1] = lastelt], 0)>>
     ELSE <<lastelt, rest>>

\* EventQueue.push / EventQueue.pop on the pair (heap list, counter)
QueuePush(q, timestamp, event_type, data) ==
  [events |-> HeapPush(q.events, Event(timestamp, event_type, data)),
   event_count |-> q.event_count + 1]

QueueIsEmpty(q) == Len(q.events) = 0

\* variant: heappop without the emptiness test, which raises IndexError on an empty heap
QueuePopUnchecked(q) ==
  IF QueueIsEmpty(q)
  THEN [ret |-> Event(None, "IndexError", None), events |-> q.events,
        event_count |-> q.event_count - 1]
  ELSE LET r == HeapPop(q.events)
       IN [ret |-> r[1], events |-> r[2], event_count |-> q.event_count - 1]

QueuePop(q) ==
  IF QueueIsEmpty(q)
  THEN [ret |-> NoEvent, events |-> q.events, event_count |-> q.event_count]
  ELSE LET r == HeapPop(q.events)
       IN [ret |-> r[1], events |-> r[2], event_count |-> q.event_count - 1]

\* EventQueue.clear
QueueClear(q) == [events |-> <<>>, event_count |-> 0]

\* heapq.heapify: for i in reversed(range(n // 2)): _siftup(x, i)
RECURSIVE HeapifyFrom(_, _)
HeapifyFrom(heap, i) ==
  IF i < 0 THEN heap ELSE HeapifyFrom(SiftUp(heap, i), i - 1)

Heapify(heap) == HeapifyFrom(heap, (Len(heap) \div 2) - 1)

\* EventQueue.remove_event: list.remove takes out the first element equal to the
\* event (all three fields compared) and the heap is rebuilt; an event that is not
\* held raises ValueError inside, and the queue is left as it is (False returned)
QueueRemoveEvent(q, event) ==
  IF \E i \in 1..Len(q.events) : q.events[i] = event
  THEN LET first == CHOOSE i \in 1..Len(q.events) :
                      /\ q.events[i] = event
                      /\ \A k \in 1..(i - 1) : q.events[k] # event
       IN [events |-> Heapify(SubSeq(q.events, 1, first - 1)
                                \o SubSeq(q.events, first + 1, Len(q.events))),
           event_count |-> q.event_count - 1]
  ELSE [events |-> q.events, event_count |-> q.event_count]

----------------------------------------------------------------------------
(* Configuration *)

WorkerDefinition(worker_type, pool_size, pool_priority, worker_startup_time, worker_shutdown_time) ==
  [worker_type |-> worker_type, pool_size |-> pool_size, pool_priority |-> pool_priority,
   worker_startup_time |-> worker_startup_time, worker_shutdown_time |-> worker_shutdown_time]

\* sim_config.CONFIG.job_definitions of the runs: a short and a long job class for
\* the exhaustive runs, and the job class of the documented scenarios (60 seconds)
job_definitions ==
  <<[job_type |-> "S", job_execution_duration |-> 1, job_probability |-> 1],
    [job_type |-> "M", job_execution_duration |-> 3, job_probability |-> 2],
    [job_type |-> "L", job_execution_duration |-> 60, job_probability |-> 0]>>

\* sim_config.CONFIG.user_definitions of the runs
user_definitions ==
  <<[user_type |-> "F", user_probability |-> 1, num_jobs |-> 1],
    [user_type |-> "C", user_probability |-> 2, num_jobs |-> 2]>>

\* the job classes of the exhaustive runs
JobTypes == {"S", "M"}

\* SimulationConfig.get_job_execution_duration
get_job_execution_duration(job_type) ==
  job_definitions[CHOOSE k \in 1..Len(job_definitions) :
                    /\ job_definitions[k].job_type = job_type
                    /\ \A i \in 1..(k - 1) : job_definitions[i].job_type # job_type
                 ].job_execution_duration

----------------------------------------------------------------------------
(* Job *)

Job(id, type, user_type, submission_time) ==
  [id |-> id, type |-> type, user_type |-> user_type, submission_time |-> submission_time,
   start_execution_time |-> 0, server_type |-> NoneType, server_id |-> None]

----------------------------------------------------------------------------
(* Worker and WorkerPool *)

Worker(worker_type, worker_id) ==
  [worker_type |-> worker_type, worker_status |-> IN_POOL, worker_id |-> worker_id]

\* POOL_PROPERTIES[worker_type] = properties: a dict keeps the position of a key
\* that is already present and appends a new key at the end
DictSet(pp, properties) ==
  IF \E k \in 1..Len(pp) : pp[k].worker_type = properties.worker_type
  THEN [k \in 1..Len(pp) |->
          IF pp[k].worker_type = properties.worker_type THEN properties ELSE pp[k]]
  ELSE Append(pp, properties)

DictGet(pp, worker_type) ==
  pp[CHOOSE k \in 1..Len(pp) : pp[k].worker_type = worker_type]

RECURSIVE LoadPoolProperties(_, _, _)
LoadPoolProperties(pp, defs, k) ==
  IF k > Len(defs) THEN pp
  ELSE LoadPoolProperties(DictSet(pp, defs[k]), defs, k + 1)

\* variant: worker_idx starts again at 0 for every tier
RECURSIVE CreateWorkersIdPerTier(_, _, _)
CreateWorkersIdPerTier(pp, k, acc) ==
  IF k > Len(pp) THEN acc
  ELSE CreateWorkersIdPerTier(pp, k + 1,
         acc \o [i \in 1..pp[k].pool_size |-> Worker(pp[k].worker_type, i - 1)])

RECURSIVE CreateWorkers(_, _, _)
CreateWorkers(pp, k, acc) ==
  IF k > Len(pp) THEN acc
  ELSE CreateWorkers(pp, k + 1,
         acc \o [i \in 1..pp[k].pool_size |-> Worker(pp[k].worker_type, Len(acc) + i - 1)])

\* WorkerPool.__init__, given the contents of POOL_PROPERTIES before the call
WorkerPoolInit(pp0, defs) ==
  LET pp == LoadPoolProperties(pp0, defs, 1)
  IN [POOL_PROPERTIES |-> pp,
      pool_priorities |-> SortSeq([k \in 1..Len(defs) |-> defs[k].pool_priority],
                                  LAMBDA a, b : a < b),
      workers |-> CreateWorkers(pp, 1, <<>>)]

get_worker_activation_time(pp, worker) == DictGet(pp, worker.worker_type).worker_startup_time
get_worker_shutdown_time(pp, worker) == DictGet(pp, worker.worker_type).worker_shutdown_time

\* for worker in self.workers: if <test>: return worker -- the first worker, in list
\* order, among the positions that pass the test; None if there is none
FirstWorker(wk, passing) ==
  IF passing = {} THEN None
  ELSE wk[CHOOSE i \in passing : \A k \in passing : i <= k].worker_id

RECURSIVE AcquireInTiers(_, _, _, _)
AcquireInTiers(pp, wk, priority, k) ==
  IF k > Len(pp) THEN None
  ELSE LET w == IF pp[k].pool_priority = priority
                THEN FirstWorker(wk, {i \in 1..Len(wk) :
                                        /\ wk[i].worker_status = IN_POOL
                                        /\ wk[i].worker_type = pp[k].worker_type})
                ELSE None
       IN IF w # None THEN w ELSE AcquireInTiers(pp, wk, priority, k + 1)

\* variant: the first IN_POOL worker of the list, whatever its tier's priority
AcquireFirstInPool(pp, prios, wk) ==
  FirstWorker(wk, {i \in 1..Len(wk) : wk[i].worker_status = IN_POOL})

RECURSIVE AcquireInPriorities(_, _, _, _)
AcquireInPriorities(pp, prios, wk, p) ==
  IF p > Len(prios) THEN None
  ELSE LET w == AcquireInTiers(pp, wk, prios[p], 1)
       IN IF w # None THEN w ELSE AcquireInPriorities(pp, prios, wk, p + 1)

\* WorkerPool.acquire_in_pool_worker_prioritized: the worker's id, or None
acquire_in_pool_worker_prioritized(pp, prios, wk) == AcquireInPriorities(pp, prios, wk, 1)

\* WorkerPool.invoke_worker
invoke_worker(pp, prios, wk) == acquire_in_pool_worker_prioritized(pp, prios, wk)

----------------------------------------------------------------------------
(* The kernel state a handler works on, and the handlers *)

\* Worker.set_worker_status
set_worker_status(st, w, worker_status) ==
  [st EXCEPT !.workers[w + 1].worker_status = worker_status,
             !.status_log = Append(@, [worker |-> w,
                                       from |-> st.workers[w + 1].worker_status,
                                       to |-> worker_status,
                                       busy_until |-> st.busy_until[w]])]

\* variant: the READY worker that comes last in the list
allocate_ready_worker_last(st) ==
  LET passing == {i \in 1..Len(st.workers) : st.workers[i].worker_status = READY}
      w == IF passing = {} THEN None
           ELSE st.workers[CHOOSE i \in passing : \A k \in passing : i >= k].worker_id
  IN IF w # None THEN <<w, set_worker_status(st, w, BUSY)>> ELSE <<None, st>>

\* WorkerPool.allocate_ready_worker: <<worker id or None, state>>
allocate_ready_worker(st) ==
  LET w == FirstWorker(st.workers, {i \in 1..Len(st.workers) :
                                      st.workers[i].worker_status = READY})
  IN IF w # None THEN <<w, set_worker_status(st, w, BUSY)>> ELSE <<None, st>>

push(st, timestamp, event_type, data) ==
  LET q == QueuePush([events |-> st.events, event_count |-> st.event_count],
                     timestamp, event_type, data)
  IN [st EXCEPT !.events = q.events, !.event_count = q.event_count]

\* variant: the WORKER_DONE event is pushed twice
DispatchDoneTwice(st, job_submitted_time, job, w) ==
  LET worker == st.workers[w + 1]
      done == job_submitted_time + get_job_execution_duration(st.jobs[job + 1].type)
      st1 == [st EXCEPT !.jobs[job + 1].start_execution_time = job_submitted_time,
                        !.jobs[job + 1].server_type = worker.worker_type,
                        !.jobs[job + 1].server_id = worker.worker_id,
                        !.completed_jobs = Append(@, job),
                        !.busy_until[w] = done]
  IN push(push(st1, done, WORKER_DONE, w), done, WORKER_DONE, w)

\* variant: the job's start time is left at its initial value
DispatchStartUnset(st, job_submitted_time, job, w) ==
  LET worker == st.workers[w + 1]
      done == job_submitted_time + get_job_execution_duration(st.jobs[job + 1].type)
      st1 == [st EXCEPT !.jobs[job + 1].server_type = worker.worker_type,
                        !.jobs[job + 1].server_id = worker.worker_id,
                        !.completed_jobs = Append(@, job),
                        !.busy_until[w] = done]
  IN push(st1, done, WORKER_DONE, w)

\* the branch of handle_job_submitted taken when a READY worker was allocated
Dispatch(st, job_submitted_time, job, w) ==
  LET worker == st.workers[w + 1]
      done == job_submitted_time + get_job_execution_duration(st.jobs[job + 1].type)
      st1 == [st EXCEPT !.jobs[job + 1].start_execution_time = job_submitted_time,
                        !.jobs[job + 1].server_type = worker.worker_type,
                        !.jobs[job + 1].server_id = worker.worker_id,
                        !.completed_jobs = Append(@, job),
                        !.busy_until[w] = done]
  IN push(st1, done, WORKER_DONE, w)

\* variant: pending_jobs[0], the head being left in the list
PopPendingKept(st) == <<Head(st.pending_jobs), st>>

\* variant: pending_jobs.pop(), the most recently appended job
PopPendingLast(st) ==
  <<st.pending_jobs[Len(st.pending_jobs)],
    [st EXCEPT !.pending_jobs = SubSeq(@, 1, Len(@) - 1)]>>

\* pending_jobs.pop(0): <<job, state>>
PopPending(st) == <<Head(st.pending_jobs), [st EXCEPT !.pending_jobs = Tail(@)]>>

RECURSIVE handle_job_submitted(_, _, _)
RECURSIVE handle_worker_ready(_, _, _)

\* variant: a zero-startup worker is activated through the event queue like any other
handle_job_submitted_queued(st, job_submitted_time, job) ==
  LET a == allocate_ready_worker(st)
  IN IF a[1] # None
     THEN Dispatch(a[2], job_submitted_time, job, a[1])
     ELSE LET st1 == [st EXCEPT !.pending_jobs = Append(@, job),
                                !.pending_log = Append(@, job)]
              w == invoke_worker(POOL_PROPERTIES, pool_priorities, st1.workers)
          IN IF w # None
             THEN push(st1, job_submitted_time
                              + get_worker_activation_time(POOL_PROPERTIES, st1.workers[w + 1]),
                       WORKER_READY, w)
             ELSE st1

\* SimState.handle_job_submitted
handle_job_submitted(st, job_submitted_time, job) ==
  LET a == allocate_ready_worker(st)
  IN IF a[1] # None
     THEN Dispatch(a[2], job_submitted_time, job, a[1])
     ELSE LET st1 == [st EXCEPT !.pending_jobs = Append(@, job),
                                !.pending_log = Append(@, job)]
              w == invoke_worker(POOL_PROPERTIES, pool_priorities, st1.workers)
          IN IF w # None
             THEN IF get_worker_activation_time(POOL_PROPERTIES, st1.workers[w + 1]) = 0
                  THEN handle_worker_ready(set_worker_status(st1, w, READY),
                                           job_submitted_time, w)
                  ELSE push(st1, job_submitted_time
                                   + get_worker_activation_time(POOL_PROPERTIES, st1.workers[w + 1]),
                            WORKER_READY, w)
             ELSE st1

\* variant: the worker's status is not set before the pending job is dispatched
handle_worker_ready_unset(st, worker_ready_time, w) ==
  IF st.pending_jobs # <<>>
  THEN LET p == PopPending(st)
       IN handle_job_submitted(p[2], worker_ready_time, p[1])
  ELSE push(set_worker_status(st, w, READY),
            worker_ready_time + get_worker_shutdown_time(POOL_PROPERTIES, st.workers[w + 1]),
            WORKER_TO_POOL, w)

\* variant: the worker is sent towards the pool without looking at pending_jobs
handle_worker_ready_idle(st, worker_ready_time, w) ==
  push(set_worker_status(st, w, READY),
       worker_ready_time + get_worker_shutdown_time(POOL_PROPERTIES, st.workers[w + 1]),
       WORKER_TO_POOL, w)

\* variant: a worker with nothing to do stays READY, no return to the pool is scheduled
handle_worker_ready_parked(st, worker_ready_time, w) ==
  LET st1 == set_worker_status(st, w, READY)
  IN IF st1.pending_jobs # <<>>
     THEN LET p == PopPending(st1)
          IN handle_job_submitted(p[2], worker_ready_time, p[1])
     ELSE st1

\* SimState.handle_worker_ready
handle_worker_ready(st, worker_ready_time, w) ==
  LET st1 == set_worker_status(st, w, READY)
  IN IF st1.pending_jobs # <<>>
     THEN LET p == PopPending(st1)
          IN handle_job_submitted(p[2], worker_ready_time, p[1])
     ELSE push(st1, worker_ready_time + get_worker_shutdown_time(POOL_PROPERTIES, st1.workers[w + 1]),
               WORKER_TO_POOL, w)

\* variant: the worker keeps its status
handle_worker_to_pool_kept(st, worker_to_pool_time, w) == st

\* SimState.handle_worker_to_pool
handle_worker_to_pool(st, worker_to_pool_time, w) ==
  set_worker_status(st, w, IN_POOL)

\* the dispatch on event.event_type in SimState.run
HandleEvent(st, event) ==
  IF event.event_type = JOB_SUBMITTED
  THEN handle_job_submitted(st, event.timestamp, event.data)
  ELSE IF event.event_type = WORKER_READY
  THEN handle_worker_ready(st, event.timestamp, event.data)
  ELSE IF event.event_type = WORKER_DONE
  THEN handle_worker_ready(st, event.timestamp, event.data)
  ELSE IF event.event_type = WORKER_TO_POOL
  THEN handle_worker_to_pool(st, event.timestamp, event.data)
  ELSE st

----------------------------------------------------------------------------
(* Initial values of the variables a run does not use *)

GenIdle ==
  /\ job_types = <<>>
  /\ user_types = <<>>
  /\ user_type_index = 0
  /\ job_type_index = 0
  /\ job_id = 0
  /\ start_time = 0
  /\ end_time = 0
  /\ time = 0
  /\ calls = 0
  /\ returned = <<>>

\* print_statistics has not been called: nothing computed, nothing raised
NoStatistics == [exception |-> NoneType]

SerIdle ==
  /\ job_object = NoneType
  /\ json_str = <<>>
  /\ parsed_job = NoneType

\* no SimHistogram object has been constructed
NoHistogram == [min_val |-> 0, max_val |-> 0, data_points_count |-> 0, bin_width |-> 0,
                bins |-> <<>>]

HistIdle ==
  /\ hist_data = <<>>
  /\ histogram = NoHistogram
  /\ val_index = 0

\* no SimState of this process has run before
NoFirstRun == [returned |-> FALSE, workers |-> <<>>, completed |-> <<>>]

AuxInit ==
  /\ GenIdle
  /\ SerIdle
  /\ HistIdle
  /\ statistics = NoStatistics
  /\ first_run = NoFirstRun

----------------------------------------------------------------------------
(* Inputs of a run *)

\* a tier is hot (startup 0) or cold, and returns to the pool at once or after a delay
Priorities == {1, 2}
StartupTimes == {0, 2}
ShutdownTimes == {0, 2}

TierDefinitions(worker_type) ==
  {WorkerDefinition(worker_type, n, p, up, down) :
     n \in 0..MaxWorkers, p \in Priorities, up \in StartupTimes, down \in ShutdownTimes}

\* configurations with zero, one or two tiers, tier tags unique
Configurations ==
  {<<>>} \cup {<<h>> : h \in TierDefinitions("H")}
         \cup {d \in {<<h, c>> : h \in TierDefinitions("H"), c \in TierDefinitions("C")} :
                 d[1].pool_size + d[2].pool_size <= MaxWorkers}

\* job lists in nondecreasing submission order, ids 0, 1, 2, ...
JobLists ==
  UNION {{[i \in 1..n |-> Job(i - 1, f[i][1], "C", f[i][2])] :
            f \in {g \in [1..n -> JobTypes \X (0..MaxSubmission)] :
                     \A i \in 1..(n - 1) : g[i][2] <= g[i + 1][2]}} :
         n \in 0..MaxJobs}

----------------------------------------------------------------------------
(* The kernel as a state machine *)

\* SimState.__init__ (with WorkerPool.__init__ run in a fresh process), the
\* job list being the argument the driver will pass to init_jobs_in_queue
Init ==
  /\ worker_definitions \in Configurations
  /\ LET pool == WorkerPoolInit(<<>>, worker_definitions)
     IN /\ POOL_PROPERTIES = pool.POOL_PROPERTIES
        /\ pool_priorities = pool.pool_priorities
        /\ workers = pool.workers
        /\ busy_until = [w \in 0..(Len(pool.workers) - 1) |-> None]
  /\ _events = <<>>
  /\ _event_count = 0
  /\ pending_jobs = <<>>
  /\ completed_jobs = <<>>
  /\ jobs \in JobLists
  /\ popped = <<>>
  /\ status_log = <<>>
  /\ pending_log = <<>>
  /\ ret = NoEvent
  /\ pushes = 0
  /\ acquired = <<>>
  /\ allocated = None
  /\ AuxInit
  /\ pc = "init"

RECURSIVE SeedJobs(_, _, _)
SeedJobs(q, js, k) ==
  IF k > Len(js) THEN q
  ELSE SeedJobs(QueuePush(q, js[k].submission_time, JOB_SUBMITTED, js[k].id), js, k + 1)

\* SimState.init_jobs_in_queue(jobs)
init_jobs_in_queue ==
  /\ pc = "init"
  /\ \E q \in {SeedJobs([events |-> _events, event_count |-> _event_count], jobs, 1)} :
       /\ _events' = q.events
       /\ _event_count' = q.event_count
  /\ pc' = "run"
  /\ UNCHANGED <<kernelVars, ret, pushes, poolVars, auxVars>>

KernelState ==
  [workers |-> workers, events |-> _events, event_count |-> _event_count,
   pending_jobs |-> pending_jobs, completed_jobs |-> completed_jobs, jobs |-> jobs,
   status_log |-> <<>>, busy_until |-> busy_until, pending_log |-> pending_log]

\* one iteration of the loop of SimState.run for an event of the given type
RunStep(event_type) ==
  /\ pc = "run"
  /\ ~QueueIsEmpty([events |-> _events])
  /\ \E p \in {QueuePop([events |-> _events, event_count |-> _event_count])} :
       /\ p.ret.event_type = event_type
       /\ \E st \in {HandleEvent([KernelState EXCEPT !.events = p.events,
                                                     !.event_count = p.event_count], p.ret)} :
            /\ ret' = p.ret
            /\ popped' = Append(popped, p.ret)
            /\ workers' = st.workers
            /\ _events' = st.events
            /\ _event_count' = st.event_count
            /\ pending_jobs' = st.pending_jobs
            /\ completed_jobs' = st.completed_jobs
            /\ jobs' = st.jobs
            /\ status_log' = st.status_log
            /\ busy_until' = st.busy_until
            /\ pending_log' = st.pending_log
  /\ UNCHANGED <<worker_definitions, POOL_PROPERTIES, pool_priorities, pushes, poolVars, auxVars, pc>>

RunJobSubmitted == RunStep(JOB_SUBMITTED)
RunWorkerReady == RunStep(WORKER_READY)
RunWorkerDone == RunStep(WORKER_DONE)
RunWorkerToPool == RunStep(WORKER_TO_POOL)

\* SimState.run returns when the event queue is empty
RunReturn ==
  /\ pc = "run"
  /\ QueueIsEmpty([events |-> _events])
  /\ pc' = "done"
  /\ UNCHANGED <<kernelVars, _events, _event_count, ret, pushes, poolVars, auxVars>>

\* the exception max() and min() raise on an empty sequence
ValueError == "ValueError"

\* max(...) and min(...) over a non-empty sequence of integers
MaxOf(values) ==
  CHOOSE v \in {values[i] : i \in 1..Len(values)} : \A i \in 1..Len(values) : values[i] <= v
MinOf(values) ==
  CHOOSE v \in {values[i] : i \in 1..Len(values)} : \A i \in 1..Len(values) : v <= values[i]

\* the start times, the submission times and the wait times of the completed jobs
StartTimes(completed) == [i \in 1..Len(completed) |-> completed[i].start_execution_time]
SubmissionTimes(completed) == [i \in 1..Len(completed) |-> completed[i].submission_time]
WaitTimes(completed) ==
  [i \in 1..Len(completed) |->
     completed[i].start_execution_time - completed[i].submission_time]

\* max(values) and min(values) raise ValueError when values is empty
Raises(values) == values = <<>>

\* print_submitted_jobs: the count of each job class
SubmittedJobs(completed) ==
  [jt \in {completed[i].type : i \in 1..Len(completed)} |->
     Cardinality({i \in 1..Len(completed) : completed[i].type = jt})]

\* print_wait_times: nothing is printed when there is no wait time
PrintedWaitTimes(completed) ==
  IF WaitTimes(completed) = <<>> THEN <<>>
  ELSE <<MinOf(WaitTimes(completed)), MaxOf(WaitTimes(completed))>>

\* SimState.print_statistics: the first statement that raises ends it; max() is taken
\* over the start times, then SimHistogramStacked takes min() of the submission times
print_statistics(completed) ==
  IF Raises(StartTimes(completed)) \/ Raises(SubmissionTimes(completed))
  THEN [exception |-> ValueError]
  ELSE [exception |-> NoneType,
        simlated_time |-> MaxOf(StartTimes(completed)),
        jobs |-> Len(completed),
        jobs_types |-> SubmittedJobs(completed),
        wait_times |-> PrintedWaitTimes(completed)]

\* the Job objects of self.completed_jobs
CompletedJobs == [k \in 1..Len(completed_jobs) |-> jobs[completed_jobs[k] + 1]]

\* main: sim_state.print_statistics() after the run
PrintStatistics ==
  /\ pc = "done"
  /\ statistics' = print_statistics(CompletedJobs)
  /\ pc' = IF print_statistics(CompletedJobs).exception = NoneType
           THEN "printed" ELSE "raised"
  /\ UNCHANGED <<kernelVars, _events, _event_count, ret, pushes, poolVars, genVars, serVars,
                 histVars, first_run>>

Next ==
  \/ init_jobs_in_queue
  \/ RunJobSubmitted
  \/ RunWorkerReady
  \/ RunWorkerDone
  \/ RunWorkerToPool
  \/ RunReturn
  \/ PrintStatistics

Spec == Init /\ [][Next]_vars

----------------------------------------------------------------------------
(* EventQueue on its own: any sequence of push and pop *)

InitEQ ==
  /\ worker_definitions = <<>>
  /\ POOL_PROPERTIES = <<>>
  /\ pool_priorities = <<>>
  /\ workers = <<>>
  /\ busy_until = <<>>
  /\ _events = <<>>
  /\ _event_count = 0
  /\ pending_jobs = <<>>
  /\ completed_jobs = <<>>
  /\ jobs = <<>>
  /\ popped = <<>>
  /\ status_log = <<>>
  /\ pending_log = <<>>
  /\ ret = NoEvent
  /\ pushes = 0
  /\ acquired = <<>>
  /\ allocated = None
  /\ AuxInit
  /\ pc = "queue"

\* EventQueue.push(timestamp, event_type, data); data is the number of the push
EQPush ==
  /\ pc = "queue"
  /\ pushes < MaxPushes
  /\ \E timestamp \in 0..MaxTimestamp, event_type \in {JOB_SUBMITTED, WORKER_READY} :
       \E q \in {QueuePush([events |-> _events, event_count |-> _event_count],
                            timestamp, event_type, pushes)} :
          /\ _events' = q.events
          /\ _event_count' = q.event_count
  /\ pushes' = pushes + 1
  /\ UNCHANGED <<kernelVars, ret, poolVars, auxVars, pc>>

\* EventQueue.pop()
EQPop ==
  /\ pc = "queue"
  /\ \E p \in {QueuePop([events |-> _events, event_count |-> _event_count])} :
       /\ ret' = p.ret
       /\ _events' = p.events
       /\ _event_count' = p.event_count
       /\ popped' = IF p.ret = NoEvent THEN popped ELSE Append(popped, p.ret)
  /\ UNCHANGED <<worker_definitions, POOL_PROPERTIES, pool_priorities, workers,
                 pending_jobs, completed_jobs, jobs, status_log, busy_until,
                 pending_log, pushes, poolVars, auxVars, pc>>

\* EventQueue.clear()
EQClear ==
  /\ pc = "queue"
  /\ \E q \in {QueueClear([events |-> _events, event_count |-> _event_count])} :
       /\ _events' = q.events
       /\ _event_count' = q.event_count
  /\ UNCHANGED <<kernelVars, ret, pushes, poolVars, auxVars, pc>>

\* EventQueue.remove_event(event), for an event that is held or was held
EQRemoveEvent ==
  /\ pc = "queue"
  /\ \E event \in {_events[i] : i \in 1..Len(_events)} \cup {popped[i] : i \in 1..Len(popped)} :
       \E q \in {QueueRemoveEvent([events |-> _events, event_count |-> _event_count], event)} :
          /\ _events' = q.events
          /\ _event_count' = q.event_count
  /\ UNCHANGED <<kernelVars, ret, pushes, poolVars, auxVars, pc>>

NextEQ == EQPush \/ EQPop \/ EQClear \/ EQRemoveEvent

SpecEQ == InitEQ /\ [][NextEQ]_vars

----------------------------------------------------------------------------
(* Helpers of the properties *)

Range(seq) == {seq[i] : i \in 1..Len(seq)}

\* position of the first occurrence of x in seq (x occurs in seq)
PositionIn(seq, x) == CHOOSE i \in 1..Len(seq) : seq[i] = x /\ \A k \in 1..(i - 1) : seq[k] # x

\* ids of the workers whose status is IN_POOL
InPoolWorkers == {workers[i].worker_id : i \in {k \in 1..Len(workers) : workers[k].worker_status = IN_POOL}}

PriorityOf(w) == DictGet(POOL_PROPERTIES, workers[w + 1].worker_type).pool_priority

\* the WORKER_READY events queued for worker w
QueuedActivations(w) ==
  {i \in 1..Len(_events) : _events[i].event_type = WORKER_READY /\ _events[i].data = w}

RECURSIVE SumPoolSizes(_, _)
SumPoolSizes(defs, k) ==
  IF k > Len(defs) THEN 0 ELSE defs[k].pool_size + SumPoolSizes(defs, k + 1)

\* total pool capacity of the configuration of the run
TotalCapacity == SumPoolSizes(worker_definitions, 1)

AllowedTransitions ==
  {<<IN_POOL, READY>>, <<READY, BUSY>>, <<BUSY, READY>>, <<READY, IN_POOL>>}

----------------------------------------------------------------------------
(* Properties *)

\* C1 (as stated): whenever run() has returned, every seeded job is in completed_jobs.
C1_AllSeededCompleted ==
  pc = "done" => Len(completed_jobs) = Len(jobs)

\* C1 (amended): whenever run() has returned and the configuration gives the pool a
\* total capacity of at least one worker, the number of completed jobs equals the
\* number of seeded jobs.
C1_AllSeededCompletedGivenWorker ==
  (pc = "done" /\ TotalCapacity >= 1) => Len(completed_jobs) = Len(jobs)

\* C1 witness: a finished run of a non-empty pool in which every job had to wait
C1_Witness ==
  /\ pc = "done"
  /\ TotalCapacity >= 1
  /\ Len(jobs) = MaxJobs
  /\ Len(pending_log) = Len(jobs)
  /\ Len(completed_jobs) = Len(jobs)

\* C2: a worker leaves BUSY only in the handling of the WORKER_DONE event of its
\* current assignment, at assignment time + execution duration.
C2_BusyForExecutionDuration ==
  \A k \in 1..Len(status_log) :
    (status_log[k].from = BUSY /\ status_log[k].to # BUSY)
      => /\ ret.event_type = WORKER_DONE
         /\ ret.data = status_log[k].worker
         /\ ret.timestamp = status_log[k].busy_until

\* C3: at most one WORKER_READY event per worker is in the event queue.
C3_OneOutstandingActivation ==
  \A i \in 1..Len(workers) : Cardinality(QueuedActivations(workers[i].worker_id)) <= 1

\* C4: every change of a worker's status is IN_POOL -> READY, READY -> BUSY,
\* BUSY -> READY or READY -> IN_POOL.
C4_StatusStateMachine ==
  \A k \in 1..Len(status_log) :
    status_log[k].from # status_log[k].to
      => <<status_log[k].from, status_log[k].to>> \in AllowedTransitions

\* C5: jobs are dispatched from pending_jobs in the order they were appended: if A was
\* appended before B and B has been dispatched, A was dispatched before B.
C5_PendingFIFO ==
  \A a, b \in 1..Len(pending_log) :
    (a < b /\ pending_log[b] \in Range(completed_jobs))
      => /\ pending_log[a] \in Range(completed_jobs)
         /\ PositionIn(completed_jobs, pending_log[a]) < PositionIn(completed_jobs, pending_log[b])

\* C5 witness: two jobs of different classes waited together, the first appended has
\* been dispatched and the second is still pending
C5_Witness ==
  /\ Len(pending_log) >= 2
  /\ pending_jobs = <<pending_log[2]>>
  /\ pending_log[1] \in Range(completed_jobs)
  /\ jobs[pending_log[1] + 1].type = "M"
  /\ jobs[pending_log[2] + 1].type = "S"

\* C6: the timestamps of the popped events are nondecreasing, and no queued event is
\* earlier than the last popped one.
C6_TimeMonotonic ==
  /\ \A i \in 1..(Len(popped) - 1) : popped[i].timestamp <= popped[i + 1].timestamp
  /\ popped # <<>> =>
       \A i \in 1..Len(_events) : _events[i].timestamp >= popped[Len(popped)].timestamp

\* C6 witness: a run that popped an activation, a completion and a return to the pool
\* at three increasing times
C6_Witness ==
  /\ pc = "run"
  /\ \E i, j, k \in 1..Len(popped) :
       /\ popped[i].event_type = WORKER_READY
       /\ popped[j].event_type = WORKER_DONE
       /\ popped[k].event_type = WORKER_TO_POOL
       /\ popped[i].timestamp < popped[j].timestamp
       /\ popped[j].timestamp < popped[k].timestamp
  /\ _events # <<>>

\* C7: events with equal timestamps are popped in the order they were pushed.
C7_TiesInInsertionOrder ==
  \A i, j \in 1..Len(popped) :
    (i < j /\ popped[i].timestamp = popped[j].timestamp) => popped[i].data < popped[j].data

\* C8: pop on a non-empty queue removes exactly the returned event, and the returned
\* event's timestamp is the minimum of the timestamps held.
C8_PopReturnsMinimum ==
  [][popped' # popped =>
       /\ ret' \in Range(_events)
       /\ \A i \in 1..Len(_events) : ret'.timestamp <= _events[i].timestamp
       /\ Len(_events') = Len(_events) - 1
       /\ Range(_events') = Range(_events) \ {ret'}]_vars

\* C8 witness: pop returned an event pushed later than, and of another type than, an
\* event with a larger timestamp that is still queued
C8_Witness ==
  /\ pc = "queue"
  /\ ret # NoEvent
  /\ \E i \in 1..Len(_events) :
       /\ _events[i].timestamp > ret.timestamp
       /\ _events[i].data < ret.data
       /\ _events[i].event_type # ret.event_type
  /\ Len(_events) >= 3

\* C9: every completed job started no earlier than it was submitted and has its worker
\* tier and worker id set.
C9_CompletedJobsWellFormed ==
  \A k \in 1..Len(completed_jobs) :
    LET job == jobs[completed_jobs[k] + 1]
    IN /\ job.start_execution_time >= job.submission_time
       /\ job.server_type # NoneType
       /\ job.server_id # None

\* C9 witness: a completed job that waited, run by the second worker
C9_Witness ==
  \E k \in 1..Len(completed_jobs) :
    LET job == jobs[completed_jobs[k] + 1]
    IN /\ job.submission_time > 0
       /\ job.start_execution_time > job.submission_time
       /\ job.server_id = 1

\* C10: invoke_worker returns None exactly when no worker is IN_POOL; otherwise it
\* returns an IN_POOL worker of a tier with the smallest priority number among the
\* IN_POOL workers, the one with the smallest id among the IN_POOL workers of its tier.
C10_AcquireByPriorityThenId ==
  LET w == invoke_worker(POOL_PROPERTIES, pool_priorities, workers)
  IN IF InPoolWorkers = {}
     THEN w = None
     ELSE /\ w \in InPoolWorkers
          /\ \A x \in InPoolWorkers : PriorityOf(w) <= PriorityOf(x)
          /\ \A x \in InPoolWorkers :
               workers[x + 1].worker_type = workers[w + 1].worker_type => w <= x

\* C10 witness: in the middle of a run both tiers have an IN_POOL worker, the tier
\* listed second has the smaller priority number, and its worker is the one returned
C10_Witness ==
  /\ pc = "run"
  /\ popped # <<>>
  /\ InPoolWorkers = {0, 1}
  /\ workers[1].worker_type # workers[2].worker_type
  /\ PriorityOf(1) < PriorityOf(0)
  /\ invoke_worker(POOL_PROPERTIES, pool_priorities, workers) = 1

----------------------------------------------------------------------------
(* WorkerPool on its own: a caller that builds a pool and calls its methods, *)
(* as the tests of the pool do                                              *)

\* the pool reads no latency in these runs: tiers without startup or shutdown time
PoolConfigurations ==
  {d \in Configurations :
     \A k \in 1..Len(d) : d[k].worker_startup_time = 0 /\ d[k].worker_shutdown_time = 0}

\* pool = WorkerPool() in a fresh process
InitPool ==
  /\ worker_definitions \in PoolConfigurations
  /\ LET pool == WorkerPoolInit(<<>>, worker_definitions)
     IN /\ POOL_PROPERTIES = pool.POOL_PROPERTIES
        /\ pool_priorities = pool.pool_priorities
        /\ workers = pool.workers
        /\ busy_until = [w \in 0..(Len(pool.workers) - 1) |-> None]
  /\ _events = <<>>
  /\ _event_count = 0
  /\ pending_jobs = <<>>
  /\ completed_jobs = <<>>
  /\ jobs = <<>>
  /\ popped = <<>>
  /\ status_log = <<>>
  /\ pending_log = <<>>
  /\ ret = NoEvent
  /\ pushes = 0
  /\ acquired = <<>>
  /\ allocated = None
  /\ AuxInit
  /\ pc = "pool"

\* worker = pool.acquire_in_pool_worker_prioritized(); the call changes no status.
\* acquired keeps the results of the calls made since the last status change.
PoolAcquire ==
  /\ pc = "pool"
  /\ Len(acquired) < MaxAcquires
  /\ acquired' = Append(acquired,
                        acquire_in_pool_worker_prioritized(POOL_PROPERTIES, pool_priorities, workers))
  /\ UNCHANGED <<kernelVars, _events, _event_count, ret, pushes, allocated, auxVars, pc>>

\* worker = pool.allocate_ready_worker()
PoolAllocate ==
  /\ pc = "pool"
  /\ \E a \in {allocate_ready_worker(KernelState)} :
       /\ allocated' = a[1]
       /\ workers' = a[2].workers
       /\ acquired' = IF a[1] # None THEN <<>> ELSE acquired
  /\ UNCHANGED <<worker_definitions, POOL_PROPERTIES, pool_priorities, _events, _event_count,
                 pending_jobs, completed_jobs, jobs, popped, status_log, busy_until,
                 pending_log, ret, pushes, auxVars, pc>>

\* w.set_worker_status(status) called on a worker of the pool
PoolSetStatus ==
  /\ pc = "pool"
  /\ \E w \in 0..(Len(workers) - 1), worker_status \in {IN_POOL, READY, BUSY} :
       workers' = set_worker_status(KernelState, w, worker_status).workers
  /\ acquired' = <<>>
  /\ UNCHANGED <<worker_definitions, POOL_PROPERTIES, pool_priorities, _events, _event_count,
                 pending_jobs, completed_jobs, jobs, popped, status_log, busy_until,
                 pending_log, ret, pushes, allocated, auxVars, pc>>

NextPool == PoolAcquire \/ PoolAllocate \/ PoolSetStatus

SpecPool == InitPool /\ [][NextPool]_vars

\* the pool is in the state WorkerPool() leaves it in: every worker IN_POOL
FreshPool == \A i \in 1..Len(workers) : workers[i].worker_status = IN_POOL

\* C11: on a freshly constructed pool, the workers returned by successive calls of
\* acquire_in_pool_worker_prioritized are pairwise distinct, and once a call has
\* returned None every worker of the pool has been returned.
C11_AcquireYieldsEveryWorkerOnce ==
  (pc = "pool" /\ FreshPool) =>
     /\ \A i, k \in 1..Len(acquired) :
          (i # k /\ acquired[i] # None) => acquired[i] # acquired[k]
     /\ (acquired # <<>> /\ acquired[Len(acquired)] = None) =>
          {acquired[i] : i \in 1..Len(acquired)} \ {None} = 0..(Len(workers) - 1)

ReadyWorkers == {w \in 0..(Len(workers) - 1) : workers[w + 1].worker_status = READY}

\* C12: allocate_ready_worker returns the READY worker with the smallest id and sets
\* that worker, and no other, to BUSY; with no READY worker it returns None and
\* leaves every worker as it was.
C12_AllocateSmallestReadyId ==
  [][PoolAllocate =>
       IF ReadyWorkers = {}
       THEN allocated' = None /\ workers' = workers
       ELSE /\ allocated' \in ReadyWorkers
            /\ \A x \in ReadyWorkers : workers[allocated' + 1].worker_id <= workers[x + 1].worker_id
            /\ workers' = [workers EXCEPT ![allocated' + 1].worker_status = BUSY]]_vars

\* C12 witness: of two READY workers the call has returned worker 0 and made it
\* BUSY, the other one is still READY
C12_Witness ==
  /\ pc = "pool"
  /\ Len(workers) = 2
  /\ allocated = 0
  /\ workers[1].worker_status = BUSY
  /\ workers[2].worker_status = READY

----------------------------------------------------------------------------
(* The kernel on the documented scenarios: one worker per tier, jobs of 60   *)
(* seconds, a cold start of 300 seconds, a shutdown delay of 120 seconds     *)

ScenarioStartupTimes == {0, 300}
ScenarioShutdownTimes == {0, 120}
ScenarioSubmissionTimes == {0, 100, 200}

ScenarioTierDefinitions(worker_type) ==
  {WorkerDefinition(worker_type, 1, p, up, down) :
     p \in Priorities, up \in ScenarioStartupTimes, down \in ScenarioShutdownTimes}

\* one tier, or two tiers listed in either order of priority
ScenarioConfigurations ==
  {<<h>> : h \in ScenarioTierDefinitions("H")}
    \cup {<<h, c>> : h \in ScenarioTierDefinitions("H"), c \in ScenarioTierDefinitions("C")}

\* job lists in nondecreasing submission order, ids 0, 1, 2, ..., all of class L
ScenarioJobLists ==
  UNION {{[i \in 1..n |-> Job(i - 1, "L", "C", f[i])] :
            f \in {g \in [1..n -> ScenarioSubmissionTimes] :
                     \A i \in 1..(n - 1) : g[i] <= g[i + 1]}} :
         n \in 0..MaxScenarioJobs}

\* SimState.__init__ in a fresh process, for a scenario
InitScenario ==
  /\ worker_definitions \in ScenarioConfigurations
  /\ LET pool == WorkerPoolInit(<<>>, worker_definitions)
     IN /\ POOL_PROPERTIES = pool.POOL_PROPERTIES
        /\ pool_priorities = pool.pool_priorities
        /\ workers = pool.workers
        /\ busy_until = [w \in 0..(Len(pool.workers) - 1) |-> None]
  /\ _events = <<>>
  /\ _event_count = 0
  /\ pending_jobs = <<>>
  /\ completed_jobs = <<>>
  /\ jobs \in ScenarioJobLists
  /\ popped = <<>>
  /\ status_log = <<>>
  /\ pending_log = <<>>
  /\ ret = NoEvent
  /\ pushes = 0
  /\ acquired = <<>>
  /\ allocated = None
  /\ AuxInit
  /\ pc = "init"

SpecScenario == InitScenario /\ [][Next]_vars

\* worker w comes before worker x in the order (tier priority, worker id)
ByPriorityThenId(w, x) ==
  \/ PriorityOf(w) < PriorityOf(x)
  \/ PriorityOf(w) = PriorityOf(x) /\ w <= x

\* C13: every worker the kernel selects is minimal in (tier priority, worker id) among
\* the candidates: the worker set BUSY for a job among the READY workers, the worker
\* activated in line or by a queued WORKER_READY among the IN_POOL workers.
C13_SelectionByPriorityThenId ==
  pc \in {"run", "done"} =>
    /\ \A k \in 1..Len(status_log) :
         status_log[k].to = BUSY =>
           \A x \in ReadyWorkers : ByPriorityThenId(status_log[k].worker, x)
    /\ \A k \in 1..Len(status_log) :
         (ret.event_type = JOB_SUBMITTED /\ status_log[k].from = IN_POOL) =>
           \A x \in InPoolWorkers : ByPriorityThenId(status_log[k].worker, x)
    /\ (ret.event_type = JOB_SUBMITTED /\ status_log = <<>>) =>
         LET w == invoke_worker(POOL_PROPERTIES, pool_priorities, workers)
         IN w # None => \A x \in InPoolWorkers : ByPriorityThenId(w, x)

\* C14: a WORKER_READY or WORKER_TO_POOL event delivered to a BUSY worker, or a job
\* dispatched to a BUSY worker, halts the run: the handler never applies a status
\* transition to the BUSY worker in these cases.
C14_HaltsOnContractBreak ==
  pc \in {"run", "done"} =>
    /\ ~(/\ ret.event_type \in {WORKER_READY, WORKER_TO_POOL}
         /\ status_log # <<>>
         /\ status_log[1].worker = ret.data
         /\ status_log[1].from = BUSY)
    /\ \A k \in 1..Len(status_log) : status_log[k].to = BUSY => status_log[k].from # BUSY

\* the position in the configuration of the tier a worker belongs to
TierIndex(worker) ==
  CHOOSE k \in 1..Len(worker_definitions) :
    worker_definitions[k].worker_type = worker.worker_type

\* C15: the pool holds for each tier of the configuration exactly pool_size workers;
\* worker ids are 0, 1, 2, ... in creation order, tier after tier as listed; every
\* worker is IN_POOL after construction; the workers are the same in every state of
\* the run.
C15_PoolMatchesConfiguration ==
  pc \in {"init", "run", "done"} =>
    /\ \A k \in 1..Len(worker_definitions) :
         Cardinality({i \in 1..Len(workers) :
                        workers[i].worker_type = worker_definitions[k].worker_type})
           = worker_definitions[k].pool_size
    /\ \A i \in 1..Len(workers) : workers[i].worker_id = i - 1
    /\ \A i, k \in 1..Len(workers) :
         i < k => TierIndex(workers[i]) <= TierIndex(workers[k])
    /\ pc = "init" => FreshPool

\* C15 witness: a run over two tiers of one worker each has ended after both
\* workers have served a job
C15_Witness ==
  /\ pc = "done"
  /\ Len(worker_definitions) = 2
  /\ worker_definitions[1].pool_size = 1
  /\ worker_definitions[2].pool_size = 1
  /\ Len(workers) = 2
  /\ \E i, k \in 1..Len(completed_jobs) :
       jobs[completed_jobs[i] + 1].server_id = 0 /\ jobs[completed_jobs[k] + 1].server_id = 1

\* the job of the given id started at the given time on the worker of the given tier
StartedOn(id, start_execution_time, server_type) ==
  /\ id \in Range(completed_jobs)
  /\ jobs[id + 1].start_execution_time = start_execution_time
  /\ jobs[id + 1].server_type = server_type

\* the submission times of the seeded jobs
Submissions == [i \in 1..Len(jobs) |-> jobs[i].submission_time]

\* scenario S4: tier H (capacity 1, priority 1, startup 0) listed before tier C
\* (capacity 1, priority 2, startup 300), three jobs of 60 seconds submitted at 0
ScenarioS4 ==
  /\ Len(worker_definitions) = 2
  /\ worker_definitions[1].worker_type = "H"
  /\ worker_definitions[1].pool_priority = 1
  /\ worker_definitions[1].worker_startup_time = 0
  /\ worker_definitions[2].worker_type = "C"
  /\ worker_definitions[2].pool_priority = 2
  /\ worker_definitions[2].worker_startup_time = 300
  /\ Submissions = <<0, 0, 0>>

\* C16 as stated: in scenario S4 job 0 starts at 0 on H, job 1 at 300 on C and job 2
\* at 60 on H.
C16_ScenarioS4 ==
  (pc = "done" /\ ScenarioS4) =>
     /\ StartedOn(0, 0, "H")
     /\ StartedOn(1, 300, "C")
     /\ StartedOn(2, 60, "H")

\* C16 amended: in scenario S4 the three jobs run on H one after the other, in the
\* order of their submission: job 0 starts at 0, job 1 at 60 and job 2 at 120; no
\* job runs on C.
C16_ScenarioS4Fifo ==
  (pc = "done" /\ ScenarioS4) =>
     /\ completed_jobs = <<0, 1, 2>>
     /\ StartedOn(0, 0, "H")
     /\ StartedOn(1, 60, "H")
     /\ StartedOn(2, 120, "H")

\* C16 witness: the run of scenario S4 has ended with three completed jobs after the
\* cold worker was delivered its WORKER_READY at 300
C16_Witness ==
  /\ pc = "done"
  /\ ScenarioS4
  /\ Len(completed_jobs) = 3
  /\ \E k \in 1..Len(popped) :
       popped[k] = Event(300, WORKER_READY, 1)

\* scenario S1: one tier H (capacity 1, priority 1, startup 0, shutdown 0), one job
\* of 60 seconds submitted at 0
ScenarioS1 ==
  /\ worker_definitions = <<WorkerDefinition("H", 1, 1, 0, 0)>>
  /\ Submissions = <<0>>

\* C17: the run of scenario S1 pops JOB_SUBMITTED@0, WORKER_DONE@60, WORKER_TO_POOL@60
\* and nothing else, and ends with one completed job: job 0, started at 0 on worker
\* 0 of tier H.
C17_ScenarioS1 ==
  (pc = "done" /\ ScenarioS1) =>
     /\ popped = <<Event(0, JOB_SUBMITTED, 0), Event(60, WORKER_DONE, 0),
                   Event(60, WORKER_TO_POOL, 0)>>
     /\ completed_jobs = <<0>>
     /\ jobs[1].start_execution_time = 0
     /\ jobs[1].server_type = "H"
     /\ jobs[1].server_id = 0

\* C17 witness: the run of scenario S1 has ended, its last event popped at 60
C17_Witness ==
  /\ pc = "done"
  /\ ScenarioS1
  /\ ret.timestamp = 60
  /\ workers[1].worker_status = IN_POOL

\* scenario S5: one tier of capacity 1, startup 0 and shutdown 120, two jobs of 60
\* seconds submitted at 0 and at 200
ScenarioS5 ==
  /\ Len(worker_definitions) = 1
  /\ worker_definitions[1].worker_startup_time = 0
  /\ worker_definitions[1].worker_shutdown_time = 120
  /\ Submissions = <<0, 200>>

\* C18: in scenario S5 the worker is READY once its WORKER_DONE of 60 is handled, goes
\* from READY to IN_POOL at 180, is IN_POOL when the second job is submitted at 200
\* and is activated and given the job in the same handler; nothing else is popped in
\* between, and both jobs start at their submission time.
C18_ScenarioS5 ==
  (pc \in {"run", "done"} /\ ScenarioS5) =>
     /\ ret = Event(60, WORKER_DONE, 0) => workers[1].worker_status = READY
     /\ ret = Event(180, WORKER_TO_POOL, 0) =>
          /\ Len(status_log) = 1
          /\ status_log[1].from = READY
          /\ status_log[1].to = IN_POOL
     /\ ret = Event(200, JOB_SUBMITTED, 1) =>
          /\ status_log[1].from = IN_POOL
          /\ status_log[1].to = READY
          /\ status_log[Len(status_log)].to = BUSY
          /\ jobs[2].start_execution_time = 200
     /\ pc = "done" =>
          /\ popped = <<Event(0, JOB_SUBMITTED, 0), Event(60, WORKER_DONE, 0),
                        Event(180, WORKER_TO_POOL, 0), Event(200, JOB_SUBMITTED, 1),
                        Event(260, WORKER_DONE, 0), Event(380, WORKER_TO_POOL, 0)>>
          /\ completed_jobs = <<0, 1>>
          /\ \A i \in 1..Len(jobs) :
               jobs[i].start_execution_time - jobs[i].submission_time = 0

\* C18 witness: in scenario S5 the second job has just been submitted at 200 and is
\* running on the worker that had returned to the pool at 180
C18_Witness ==
  /\ pc = "run"
  /\ ScenarioS5
  /\ ret = Event(200, JOB_SUBMITTED, 1)
  /\ popped[Len(popped) - 1] = Event(180, WORKER_TO_POOL, 0)
  /\ workers[1].worker_status = BUSY

----------------------------------------------------------------------------
(* The kernel of src/src/jobsim.py, which always queues WORKER_READY, on its  *)
(* pool src/src/workers_model.py of standby, deallocated and cold workers     *)

STANDBY == "standby"
DEALLOCATED == "deallocated"
COLD == "cold"

\* the fields of sim_config.CONFIG (src/src/sim_config.py) that the pool reads
PoolConfig(standby, deallocated, cold, allocate_time, startup_time, shutdown_time) ==
  [standby_workers |-> standby, max_deallocated_workers |-> deallocated,
   max_cold_workers |-> cold, worker_allocate_time |-> allocate_time,
   worker_startup_time |-> startup_time, worker_shutdown_time |-> shutdown_time]

\* Worker objects are told apart by identity (Worker defines no __eq__): the kernel
\* state keeps every Worker object made so far in `objects`, a reference to an
\* object being its position there, and the list self.workers of the pool as the
\* list `workers` of references; WORKER_READY, WORKER_DONE and WORKER_TO_POOL events
\* carry the reference of their worker, and busy_until is kept by reference

\* Worker(worker_type, worker_id) is constructed: <<reference, state>>
NewWorker(st, worker_type, worker_id) ==
  <<Len(st.objects) + 1,
    [st EXCEPT !.objects = Append(@, Worker(worker_type, worker_id)),
               !.busy_until = Append(@, None)]>>

\* the workers of the pool, in the order of self.workers
PoolWorkers(st) == [i \in 1..Len(st.workers) |-> st.objects[st.workers[i]]]

\* WorkerPool.__init__ of src/src/workers_model.py: standby workers are created
\* and set READY, then the deallocated and the cold workers, IN_POOL; ids count up
WorkerPoolByType(config) ==
  LET made == [i \in 1..config.standby_workers |->
                 [Worker(STANDBY, i - 1) EXCEPT !.worker_status = READY]]
              \o [i \in 1..config.max_deallocated_workers |->
                    Worker(DEALLOCATED, config.standby_workers + i - 1)]
              \o [i \in 1..config.max_cold_workers |->
                    Worker(COLD, config.standby_workers + config.max_deallocated_workers
                                   + i - 1)]
  IN [objects |-> made, workers |-> [i \in 1..Len(made) |-> i]]

\* WorkerPool.add_worker of src/src/workers_model.py: self.workers.append(worker),
\* worker being the reference of a Worker object
add_worker(st, worker) == [st EXCEPT !.workers = Append(@, worker)]

\* WorkerPool.remove_worker of src/src/workers_model.py: self.workers.remove(worker)
\* takes the first occurrence of the object out of the list, the others keeping
\* their order, and raises ValueError for an object that is not in the list, which
\* is left as it is: <<exception or None, state>>
remove_worker(st, worker) ==
  IF \E i \in 1..Len(st.workers) : st.workers[i] = worker
  THEN LET first == CHOOSE i \in 1..Len(st.workers) :
                      /\ st.workers[i] = worker
                      /\ \A k \in 1..(i - 1) : st.workers[k] # worker
       IN <<None, [st EXCEPT !.workers = SubSeq(@, 1, first - 1)
                                          \o SubSeq(@, first + 1, Len(@))]>>
  ELSE <<ValueError, st>>

\* Worker.set_worker_status of src/src/workers_model.py: a READY standby worker
\* is not sent to the pool, the call returns without assigning
set_worker_status_by_type(st, worker, worker_status) ==
  LET call == [worker |-> st.objects[worker].worker_id,
               object |-> worker,
               from |-> st.objects[worker].worker_status,
               to |-> worker_status,
               busy_until |-> st.busy_until[worker]]
  IN IF /\ worker_status = IN_POOL
        /\ st.objects[worker].worker_status = READY
        /\ st.objects[worker].worker_type = STANDBY
     THEN [st EXCEPT !.status_log = Append(@, call)]
     ELSE [st EXCEPT !.objects[worker].worker_status = worker_status,
                     !.status_log = Append(@, call)]

\* Worker.get_worker_activation_time of src/src/workers_model.py
get_worker_activation_time_by_type(config, worker) ==
  IF worker.worker_type = STANDBY THEN 0
  ELSE IF worker.worker_type = DEALLOCATED THEN config.worker_allocate_time
  ELSE config.worker_startup_time

\* Worker.get_worker_shutdown_time of src/src/workers_model.py
get_worker_shutdown_time_by_type(config, worker) ==
  IF worker.worker_type = COLD THEN config.worker_shutdown_time ELSE 0

\* the first worker of self.workers, as a reference, whose position is in passing
FirstInPool(st, passing) ==
  IF passing = {} THEN None
  ELSE st.workers[CHOOSE i \in passing : \A k \in passing : i <= k]

\* WorkerPool.allocate_ready_worker of src/src/workers_model.py: <<worker, state>>
allocate_ready_worker_by_type(st) ==
  LET worker == FirstInPool(st, {i \in 1..Len(st.workers) :
                                   st.objects[st.workers[i]].worker_status = READY})
  IN IF worker # None
     THEN <<worker, set_worker_status_by_type(st, worker, BUSY)>>
     ELSE <<None, st>>

\* WorkerPool._find_in_pool_worker_by_type: the first IN_POOL worker of the type
find_in_pool_worker_by_type(st, worker_type) ==
  FirstInPool(st, {i \in 1..Len(st.workers) :
                     /\ st.objects[st.workers[i]].worker_status = IN_POOL
                     /\ st.objects[st.workers[i]].worker_type = worker_type})

\* WorkerPool.invoke_worker of src/src/workers_model.py: a deallocated worker, else a
\* cold one; the status of the worker is left as it is
invoke_worker_by_type(st) ==
  IF find_in_pool_worker_by_type(st, DEALLOCATED) # None
  THEN find_in_pool_worker_by_type(st, DEALLOCATED)
  ELSE find_in_pool_worker_by_type(st, COLD)

\* SimState.handle_job_submitted of src/src/jobsim.py: the invoked worker is never
\* handled in line, WORKER_READY is pushed at now + activation time
handle_job_submitted_enqueue(config, st, job_submitted_time, job) ==
  LET a == allocate_ready_worker_by_type(st)
  IN IF a[1] # None
     THEN LET worker == a[1]
              done == job_submitted_time
                        + get_job_execution_duration(a[2].jobs[job + 1].type)
          IN push([a[2] EXCEPT
                     !.jobs[job + 1].start_execution_time = job_submitted_time,
                     !.jobs[job + 1].server_type = a[2].objects[worker].worker_type,
                     !.jobs[job + 1].server_id = a[2].objects[worker].worker_id,
                     !.completed_jobs = Append(@, job),
                     !.busy_until[worker] = done],
                  done, WORKER_DONE, worker)
     ELSE LET st1 == [st EXCEPT !.pending_jobs = Append(@, job),
                                !.pending_log = Append(@, job)]
              worker == invoke_worker_by_type(st1)
          IN IF worker # None
             THEN push(st1, job_submitted_time
                              + get_worker_activation_time_by_type(config,
                                                                   st1.objects[worker]),
                       WORKER_READY, worker)
             ELSE st1

\* SimState.handle_worker_ready of src/src/jobsim.py
handle_worker_ready_enqueue(config, st, worker_ready_time, worker) ==
  LET st1 == set_worker_status_by_type(st, worker, READY)
  IN IF st1.pending_jobs # <<>>
     THEN LET p == PopPending(st1)
          IN handle_job_submitted_enqueue(config, p[2], worker_ready_time, p[1])
     ELSE push(st1, worker_ready_time
                      + get_worker_shutdown_time_by_type(config, st1.objects[worker]),
               WORKER_TO_POOL, worker)

\* SimState.handle_worker_to_pool of src/src/jobsim.py
handle_worker_to_pool_enqueue(st, worker_to_pool_time, worker) ==
  set_worker_status_by_type(st, worker, IN_POOL)

\* the dispatch on event.event_type in SimState.run of src/src/jobsim.py
HandleEventEnqueue(config, st, event) ==
  IF event.event_type = JOB_SUBMITTED
  THEN handle_job_submitted_enqueue(config, st, event.timestamp, event.data)
  ELSE IF event.event_type = WORKER_READY
  THEN handle_worker_ready_enqueue(config, st, event.timestamp, event.data)
  ELSE IF event.event_type = WORKER_DONE
  THEN handle_worker_ready_enqueue(config, st, event.timestamp, event.data)
  ELSE IF event.event_type = WORKER_TO_POOL
  THEN handle_worker_to_pool_enqueue(st, event.timestamp, event.data)
  ELSE st

\* SimState.run of src/src/jobsim.py, from a kernel state to the empty queue
RECURSIVE RunEnqueue(_, _)
RunEnqueue(config, st) ==
  IF QueueIsEmpty([events |-> st.events]) THEN st
  ELSE LET p == QueuePop([events |-> st.events, event_count |-> st.event_count])
       IN RunEnqueue(config,
                     HandleEventEnqueue(config,
                                        [st EXCEPT !.events = p.events,
                                                   !.event_count = p.event_count,
                                                   !.status_log = <<>>], p.ret))

\* the seeded jobs as new Job objects
SeededJobs ==
  [i \in 1..Len(jobs) |->
     Job(jobs[i].id, jobs[i].type, jobs[i].user_type, jobs[i].submission_time)]

\* the kernel state after SimState() and init_jobs_in_queue of src/src/jobsim.py
\* for a pool configuration and a list of jobs
SeededStateByType(config, js) ==
  LET q == SeedJobs([events |-> <<>>, event_count |-> 0], js, 1)
      pool == WorkerPoolByType(config)
  IN [objects |-> pool.objects, workers |-> pool.workers,
      events |-> q.events, event_count |-> q.event_count,
      pending_jobs |-> <<>>, completed_jobs |-> <<>>, jobs |-> js,
      status_log |-> <<>>, busy_until |-> [i \in 1..Len(pool.objects) |-> None],
      pending_log |-> <<>>]

\* what a run reports of its completed jobs, in order
CompletedList(st) ==
  [k \in 1..Len(st.completed_jobs) |->
     LET job == st.jobs[st.completed_jobs[k] + 1]
     IN <<job.id, job.start_execution_time, job.server_type, job.server_id>>]

\* a configuration of tiers that the pool of src/src/jobsim.py can express: no
\* tier, one tier (as its cold workers), or two tiers of which the first has no
\* shutdown time and is acquired first (as its deallocated and its cold workers)
HasPoolConfig(defs) ==
  \/ Len(defs) <= 1
  \/ /\ Len(defs) = 2
     /\ defs[1].worker_shutdown_time = 0
     /\ defs[1].pool_priority <= defs[2].pool_priority

PoolConfigOf(defs) ==
  IF Len(defs) = 0 THEN PoolConfig(0, 0, 0, 0, 0, 0)
  ELSE IF Len(defs) = 1
  THEN PoolConfig(0, 0, defs[1].pool_size, 0,
                  defs[1].worker_startup_time, defs[1].worker_shutdown_time)
  ELSE PoolConfig(0, defs[1].pool_size, defs[2].pool_size, defs[1].worker_startup_time,
                  defs[2].worker_startup_time, defs[2].worker_shutdown_time)

\* the tier of the configuration that stands for a worker type of that pool
TierOfType(defs, worker_type) ==
  IF Len(defs) = 2 /\ worker_type = COLD THEN defs[2].worker_type ELSE defs[1].worker_type

CompletedListInTiers(defs, st) ==
  [k \in 1..Len(st.completed_jobs) |->
     LET job == st.jobs[st.completed_jobs[k] + 1]
     IN <<job.id, job.start_execution_time, TierOfType(defs, job.server_type), job.server_id>>]

\* C19: for every configuration and job list, the kernel that handles the
\* WORKER_READY of a zero-startup worker in line and the kernel that queues it at
\* the current time end with the same completed list: same jobs in the same order,
\* same start times, worker tiers and worker ids.
C19_InlineEquivalentToEnqueue ==
  (pc = "done" /\ HasPoolConfig(worker_definitions)) =>
    CompletedList(KernelState) =
      CompletedListInTiers(worker_definitions,
                           RunEnqueue(PoolConfigOf(worker_definitions),
                                      SeededStateByType(PoolConfigOf(worker_definitions),
                                                        SeededJobs)))

----------------------------------------------------------------------------
(* A second run in the same process, after the first one has returned        *)

\* variant: completed_jobs is one list shared by the SimState objects of the process
SimStateNewSharedCompleted(pp0, defs) ==
  [event_queue |-> [events |-> <<>>, event_count |-> 0],
   workers_pool |-> WorkerPoolInit(pp0, defs),
   pending_jobs |-> <<>>,
   completed_jobs |-> completed_jobs]

\* SimState.__init__, given the contents of POOL_PROPERTIES before the call: a new
\* EventQueue, a new WorkerPool and two new empty lists
SimStateNew(pp0, defs) ==
  [event_queue |-> [events |-> <<>>, event_count |-> 0],
   workers_pool |-> WorkerPoolInit(pp0, defs),
   pending_jobs |-> <<>>,
   completed_jobs |-> <<>>]

\* new Job objects for the scenario the first run was given
SameScenario ==
  [i \in 1..Len(jobs) |->
     Job(jobs[i].id, jobs[i].type, jobs[i].user_type, jobs[i].submission_time)]

\* the Worker objects a pool was built with: a run changes only their status
AsBuilt(pool) == [i \in 1..Len(pool) |-> [pool[i] EXCEPT !.worker_status = IN_POOL]]

\* after run() has returned, the same process makes a second SimState() for the same
\* configuration; the driver will pass it new Job objects for the same scenario or
\* the Job objects of the first run, as the first run left them
SecondRun ==
  /\ pc = "done"
  /\ ~first_run.returned
  /\ first_run' = [returned |-> TRUE, workers |-> AsBuilt(workers),
                   completed |-> CompletedList(KernelState)]
  /\ \E st \in {SimStateNew(POOL_PROPERTIES, worker_definitions)} :
       /\ POOL_PROPERTIES' = st.workers_pool.POOL_PROPERTIES
       /\ pool_priorities' = st.workers_pool.pool_priorities
       /\ workers' = st.workers_pool.workers
       /\ busy_until' = [w \in 0..(Len(st.workers_pool.workers) - 1) |-> None]
       /\ _events' = st.event_queue.events
       /\ _event_count' = st.event_queue.event_count
       /\ pending_jobs' = st.pending_jobs
       /\ completed_jobs' = st.completed_jobs
  /\ jobs' \in {SameScenario, jobs}
  /\ popped' = <<>>
  /\ status_log' = <<>>
  /\ pending_log' = <<>>
  /\ ret' = NoEvent
  /\ pc' = "init"
  /\ UNCHANGED <<worker_definitions, pushes, poolVars, genVars, serVars, statistics,
                 histVars>>

NextTwice == Next \/ SecondRun

SpecTwice == Init /\ [][NextTwice]_vars

\* C20: a second run from the same configuration and the same scenario, whether it
\* is given new Job objects or the Job objects of the first run, starts from the
\* same pool and ends with the same completed list as the first run: same job
\* order, start times, worker tiers and worker ids.
C20_SecondRunIdentical ==
  /\ (first_run.returned /\ pc = "init") => workers = first_run.workers
  /\ (first_run.returned /\ pc = "done") =>
        CompletedList(KernelState) = first_run.completed

\* C20 witness: the second run has ended with two jobs completed on different
\* workers, one of them after waiting
C20_Witness ==
  /\ pc = "done"
  /\ first_run.returned
  /\ Len(first_run.completed) = 2
  /\ Len(completed_jobs) = 2
  /\ jobs[1].server_id # jobs[2].server_id
  /\ \E i \in 1..Len(jobs) : jobs[i].start_execution_time > jobs[i].submission_time

----------------------------------------------------------------------------
(* JobGenerator (src/src/jobsim/jobgen.py) and the class bags of the         *)
(* configuration (src/src/sim_config.py)                                     *)

\* s * n for a one-character string s: n copies, as a sequence of characters
Repeat(s, n) == [i \in 1..n |-> s]

\* "".join([job.job_type * job.job_probability for job in self.job_definitions])
RECURSIVE JoinJobTypes(_, _)
JoinJobTypes(defs, k) ==
  IF k > Len(defs) THEN <<>>
  ELSE Repeat(defs[k].job_type, defs[k].job_probability) \o JoinJobTypes(defs, k + 1)

\* "".join([user.user_type * user.user_probability for user in self.user_definitions])
RECURSIVE JoinUserTypes(_, _)
JoinUserTypes(defs, k) ==
  IF k > Len(defs) THEN <<>>
  ELSE Repeat(defs[k].user_type, defs[k].user_probability) \o JoinUserTypes(defs, k + 1)

\* the number of occurrences of x in sequence seq
Count(seq, x) == Cardinality({i \in 1..Len(seq) : seq[i] = x})

\* random.shuffle(chars): any arrangement of the same characters
Shuffles(chars) ==
  {c \in [1..Len(chars) -> Range(chars)] : \A x \in Range(chars) : Count(c, x) = Count(chars, x)}

\* SimulationConfig.get_num_jobs
get_num_jobs(user_type) ==
  user_definitions[CHOOSE k \in 1..Len(user_definitions) :
                     /\ user_definitions[k].user_type = user_type
                     /\ \A i \in 1..(k - 1) : user_definitions[i].user_type # user_type
                  ].num_jobs

\* the generator object a method works on
Generator ==
  [user_type_index |-> user_type_index, job_type_index |-> job_type_index,
   job_id |-> job_id, jobs |-> jobs]

\* variant: the position in the bag does not advance with the jobs generated
generate_job_restarted(g, user_request_time, user_type) ==
  LET job_type == job_types[((g.job_type_index - Len(g.jobs)) % Len(job_types)) + 1]
  IN <<Job(g.job_id, job_type, user_type, user_request_time),
       [g EXCEPT !.job_type_index = @ + 1, !.job_id = @ + 1]>>

\* JobGenerator.generate_job: <<job, generator>>
generate_job(g, user_request_time, user_type) ==
  LET job_type == job_types[(g.job_type_index % Len(job_types)) + 1]
  IN <<Job(g.job_id, job_type, user_type, user_request_time),
       [g EXCEPT !.job_type_index = @ + 1, !.job_id = @ + 1]>>

\* for _ in range(num_jobs): self.jobs.append(self.generate_job(...))
RECURSIVE AppendJobs(_, _, _, _)
AppendJobs(g, user_request_time, user_type, num_jobs) ==
  IF num_jobs = 0 THEN g
  ELSE LET r == generate_job(g, user_request_time, user_type)
       IN AppendJobs([r[2] EXCEPT !.jobs = Append(@, r[1])],
                     user_request_time, user_type, num_jobs - 1)

\* variant: the jobs of the request are put at the front of the list
handle_user_request_in_front(g, user_request_time, num_jobs) ==
  LET user_type == user_types[(g.user_type_index % Len(user_types)) + 1]
      g1 == AppendJobs([g EXCEPT !.user_type_index = @ + 1, !.jobs = <<>>],
                       user_request_time, user_type, num_jobs)
  IN [g1 EXCEPT !.jobs = @ \o g.jobs]

\* JobGenerator.handle_user_request, num_jobs being the value random.randint returned
handle_user_request(g, user_request_time, num_jobs) ==
  LET user_type == user_types[(g.user_type_index % Len(user_types)) + 1]
  IN AppendJobs([g EXCEPT !.user_type_index = @ + 1],
                user_request_time, user_type, num_jobs)

\* variant: the loop runs while time <= end_time
LoopConditionInclusive(t, end) == t <= end

\* while time < end_time
LoopCondition(t, end) == t < end

\* the variables of the kernel, the queue and the pool that a generator run leaves alone
idleVars == <<worker_definitions, POOL_PROPERTIES, pool_priorities, workers, _events,
              _event_count, pending_jobs, completed_jobs, popped, status_log,
              busy_until, pending_log, ret, pushes, poolVars, serVars, statistics, histVars,
              first_run>>

\* generator = JobGenerator(), with the bags the configuration has shuffled
InitGen ==
  /\ worker_definitions = <<>>
  /\ POOL_PROPERTIES = <<>>
  /\ pool_priorities = <<>>
  /\ workers = <<>>
  /\ busy_until = <<>>
  /\ _events = <<>>
  /\ _event_count = 0
  /\ pending_jobs = <<>>
  /\ completed_jobs = <<>>
  /\ jobs = <<>>
  /\ popped = <<>>
  /\ status_log = <<>>
  /\ pending_log = <<>>
  /\ ret = NoEvent
  /\ pushes = 0
  /\ acquired = <<>>
  /\ allocated = None
  /\ SerIdle
  /\ HistIdle
  /\ statistics = NoStatistics
  /\ first_run = NoFirstRun
  /\ job_types \in Shuffles(JoinJobTypes(job_definitions, 1))
  /\ user_types \in Shuffles(JoinUserTypes(user_definitions, 1))
  /\ user_type_index = 0
  /\ job_type_index = 0
  /\ job_id = 0
  /\ start_time = 0
  /\ end_time = 0
  /\ time = 0
  /\ calls = 0
  /\ returned = <<>>
  /\ pc = "generator"

\* generator.generate_jobs(start_time, end_time) is called: time = start_time
GenerateJobsCall ==
  /\ pc = "generator"
  /\ calls < MaxGenCalls
  /\ \E t0 \in 0..MaxEndTime, t1 \in 0..MaxEndTime :
       /\ start_time' = t0
       /\ end_time' = t1
       /\ time' = t0
  /\ calls' = calls + 1
  /\ pc' = "generate_jobs"
  /\ UNCHANGED <<idleVars, jobs, job_types, user_types, user_type_index, job_type_index,
                 job_id, returned>>

\* one iteration of the loop of generate_jobs; gap is the value returned by
\* generate_interarrival_time(), num_jobs the value returned by random.randint
GenerateJobsLoop ==
  /\ pc = "generate_jobs"
  /\ LoopCondition(time, end_time)
  /\ \E gap \in 0..MaxGap :
       \E num_jobs \in 1..get_num_jobs(user_types[(user_type_index % Len(user_types)) + 1]) :
          /\ Len(jobs) + num_jobs <= MaxGenJobs
          /\ \E g \in {handle_user_request(Generator, time + gap, num_jobs)} :
               /\ user_type_index' = g.user_type_index
               /\ job_type_index' = g.job_type_index
               /\ job_id' = g.job_id
               /\ jobs' = g.jobs
          /\ time' = time + gap
  /\ UNCHANGED <<idleVars, job_types, user_types, start_time, end_time, calls, returned, pc>>

\* return self.jobs
GenerateJobsReturn ==
  /\ pc = "generate_jobs"
  /\ ~LoopCondition(time, end_time)
  /\ returned' = jobs
  /\ pc' = "generator"
  /\ UNCHANGED <<idleVars, jobs, job_types, user_types, user_type_index, job_type_index,
                 job_id, start_time, end_time, time, calls>>

NextGen == GenerateJobsCall \/ GenerateJobsLoop \/ GenerateJobsReturn

SpecGen == InitGen /\ [][NextGen]_vars

\* the first generate_jobs call on the generator has returned
FirstCallReturned == pc = "generator" /\ calls = 1

\* C21: every job returned by generate_jobs(T0, T1) on a fresh generator has a
\* submission time t with T0 <= t < T1.
C21_JobsInsideWindow ==
  FirstCallReturned =>
    \A i \in 1..Len(returned) :
      start_time <= returned[i].submission_time /\ returned[i].submission_time < end_time

\* C22: the list built by a single call of generate_jobs on a fresh generator is in
\* nondecreasing submission-time order, while the call runs and when it returns.
C22_NondecreasingSubmission ==
  calls = 1 =>
    /\ \A i \in 1..Len(jobs) : \A j \in i..Len(jobs) :
         jobs[i].submission_time <= jobs[j].submission_time
    /\ pc = "generator" => returned = jobs

\* a first call has returned two jobs of one request and a job of a later request
C22_Witness ==
  /\ FirstCallReturned
  /\ \E i \in 1..Len(returned) : \E j \in 1..Len(returned) : \E k \in 1..Len(returned) :
       /\ i < j /\ j < k
       /\ returned[i].submission_time = returned[j].submission_time
       /\ returned[j].submission_time < returned[k].submission_time

\* the k-th job of the generator's lifetime (k from 0) has the class job_types[k mod N]
JobClassesFollowBag ==
  \A i \in 1..Len(jobs) :
    /\ jobs[i].id = i - 1
    /\ jobs[i].type = job_types[((i - 1) % Len(job_types)) + 1]

\* in every N consecutive jobs each job class occurs as many times as its weight
JobClassesByWeight ==
  \A first \in 1..Len(jobs) :
    first + Len(job_types) - 1 <= Len(jobs) =>
      \A d \in 1..Len(job_definitions) :
        Cardinality({i \in first..(first + Len(job_types) - 1) :
                       jobs[i].type = job_definitions[d].job_type})
          = job_definitions[d].job_probability

\* a step that handles a request: it is request number user_type_index (from 0), and
\* all the jobs it appends carry the user class user_types[user_type_index mod M]
RequestFollowsBag ==
  user_type_index' # user_type_index =>
    /\ user_type_index' = user_type_index + 1
    /\ Len(jobs') > Len(jobs)
    /\ SubSeq(jobs', 1, Len(jobs)) = jobs
    /\ \A i \in (Len(jobs) + 1)..Len(jobs') :
         jobs'[i].user_type = user_types[(user_type_index % Len(user_types)) + 1]

\* C23: the k-th job a generator emits over its lifetime has the job class
\* job_types[k mod N], so any N consecutive jobs hold each class as often as its
\* weight, whatever the batch sizes; the k-th request has the user class user_types[k mod M].
C23_ClassesFollowBags ==
  /\ [](JobClassesFollowBag /\ JobClassesByWeight)
  /\ [][RequestFollowsBag]_vars

\* a generator that has served two calls and emitted more jobs and requests than the bags hold
C23_Witness ==
  /\ calls = 2
  /\ Len(jobs) > Len(job_types)
  /\ user_type_index > Len(user_types)
  /\ \E i \in 1..Len(jobs) : \E j \in 1..Len(jobs) : jobs[i].user_type # jobs[j].user_type

\* C24: generate_jobs(T0, T1) on a fresh generator with T0 >= T1 returns an empty
\* list and emits no job: no request is handled and no job id is used.
C24_EmptyWindowEmptyResult ==
  (calls = 1 /\ start_time >= end_time) =>
    /\ jobs = <<>>
    /\ job_id = 0
    /\ job_type_index = 0
    /\ user_type_index = 0
    /\ pc = "generator" => returned = <<>>

\* a first call with T0 = T1 > 0 has returned
C24_Witness == FirstCallReturned /\ start_time = end_time /\ start_time > 0

\* C25: when the completed list is empty at the end of a run, producing the
\* statistics does not raise: the block is skipped or reports zeros.
C25_EmptyStatisticsDoNotRaise ==
  (pc \in {"printed", "raised"} /\ completed_jobs = <<>>) =>
    (pc = "printed" /\ statistics.exception = NoneType)

----------------------------------------------------------------------------
(* Job.to_dict, Job.to_json and json: a text is a sequence of characters; a Python
   value is an int, a str (a sequence of characters) or None *)

MaxSerInt == 11

PyInt(n) == [t |-> "int", int |-> n, str |-> <<>>]
PyStr(chars) == [t |-> "str", int |-> 0, str |-> chars]
PyNone == [t |-> "NoneType", int |-> 0, str |-> <<>>]

DigitChars == <<"0", "1", "2", "3", "4", "5", "6", "7", "8", "9">>
IsDigit(c) == \E d \in 1..10 : DigitChars[d] = c
DigitValue(c) == (CHOOSE d \in 1..10 : DigitChars[d] = c) - 1

\* the decimal digits of a non-negative int
RECURSIVE Digits(_)
Digits(n) ==
  IF n < 10 THEN <<DigitChars[n + 1]>>
  ELSE Digits(n \div 10) \o <<DigitChars[(n % 10) + 1]>>

\* json.dumps of an int
dumps_int(n) == IF n < 0 THEN <<"-">> \o Digits(0 - n) ELSE Digits(n)

\* the characters of a str with quote and backslash escaped
RECURSIVE Escape(_)
Escape(chars) ==
  IF chars = <<>> THEN <<>>
  ELSE (IF Head(chars) \in {"\"", "\\"} THEN <<"\\", Head(chars)>> ELSE <<Head(chars)>>)
       \o Escape(Tail(chars))

\* json.dumps of a str
dumps_str(chars) == <<"\"">> \o Escape(chars) \o <<"\"">>

\* json.dumps of a value
dumps_value(v) ==
  IF v.t = "int" THEN dumps_int(v.int)
  ELSE IF v.t = "str" THEN dumps_str(v.str)
  ELSE <<"n", "u", "l", "l">>

\* json.dumps of the members of a dict from position k on, a dict being the sequence
\* of its <<key, value>> pairs in insertion order
RECURSIVE dumps_members(_, _)
dumps_members(d, k) ==
  IF k > Len(d) THEN <<>>
  ELSE (IF k > 1 THEN <<",", " ">> ELSE <<>>)
       \o dumps_str(d[k][1]) \o <<":", " ">> \o dumps_value(d[k][2])
       \o dumps_members(d, k + 1)

\* json.dumps of a dict
dumps(d) == <<"{">> \o dumps_members(d, 1) \o <<"}">>

\* the keys of Job.to_dict
key_id == <<"i", "d">>
key_type == <<"t", "y", "p", "e">>
key_user_type == <<"u", "s", "e", "r", "_", "t", "y", "p", "e">>
key_submission_time ==
  <<"s", "u", "b", "m", "i", "s", "s", "i", "o", "n", "_", "t", "i", "m", "e">>
key_start_execution_time ==
  <<"s", "t", "a", "r", "t", "_", "e", "x", "e", "c", "u", "t", "i", "o", "n", "_",
    "t", "i", "m", "e">>
key_server_type == <<"s", "e", "r", "v", "e", "r", "_", "t", "y", "p", "e">>
key_server_id == <<"s", "e", "r", "v", "e", "r", "_", "i", "d">>

\* variant: the start of the execution is written from submission_time
to_dict_start_as_submission(job) ==
  << <<key_id, job.id>>,
     <<key_type, job.type>>,
     <<key_user_type, job.user_type>>,
     <<key_submission_time, job.submission_time>>,
     <<key_start_execution_time, job.submission_time>>,
     <<key_server_type, job.server_type>>,
     <<key_server_id, job.server_id>> >>

\* Job.to_dict
to_dict(job) ==
  << <<key_id, job.id>>,
     <<key_type, job.type>>,
     <<key_user_type, job.user_type>>,
     <<key_submission_time, job.submission_time>>,
     <<key_start_execution_time, job.start_execution_time>>,
     <<key_server_type, job.server_type>>,
     <<key_server_id, job.server_id>> >>

\* Job.to_json
to_json(job) == dumps(to_dict(job))

\* json.loads of a str: text[pos] is the character after the opening quote;
\* <<characters, position after the closing quote>>
RECURSIVE scan_string(_, _, _)
scan_string(text, pos, acc) ==
  IF text[pos] = "\"" THEN <<acc, pos + 1>>
  ELSE IF text[pos] = "\\" THEN scan_string(text, pos + 2, Append(acc, text[pos + 1]))
  ELSE scan_string(text, pos + 1, Append(acc, text[pos]))

\* json.loads of the digits of an int: <<value, position after the last digit>>
RECURSIVE scan_int(_, _, _)
scan_int(text, pos, acc) ==
  IF pos <= Len(text) /\ IsDigit(text[pos])
  THEN scan_int(text, pos + 1, (10 * acc) + DigitValue(text[pos]))
  ELSE <<acc, pos>>

\* json.loads of a value: <<value, position after it>>
scan_value(text, pos) ==
  IF text[pos] = "\"" THEN
    LET r == scan_string(text, pos + 1, <<>>) IN <<PyStr(r[1]), r[2]>>
  ELSE IF text[pos] = "n" THEN <<PyNone, pos + 4>>
  ELSE IF text[pos] = "-" THEN
    LET r == scan_int(text, pos + 1, 0) IN <<PyInt(0 - r[1]), r[2]>>
  ELSE LET r == scan_int(text, pos, 0) IN <<PyInt(r[1]), r[2]>>

\* json.loads of the members of an object, text[pos] being the quote of a key
RECURSIVE scan_members(_, _, _)
scan_members(text, pos, acc) ==
  LET key == scan_string(text, pos + 1, <<>>)
      value == scan_value(text, key[2] + 2)
      d == Append(acc, <<key[1], value[1]>>)
  IN IF text[value[2]] = "," THEN scan_members(text, value[2] + 2, d) ELSE d

\* json.loads of the text of an object
loads(text) == IF text[2] = "}" THEN <<>> ELSE scan_members(text, 2, <<>>)

\* parsed[key]
Field(parsed, key) == parsed[CHOOSE k \in 1..Len(parsed) : parsed[k][1] = key][2]

\* Job.__init__ on Python values
PyJob(id, type, user_type, submission_time) ==
  [id |-> id, type |-> type, user_type |-> user_type, submission_time |-> submission_time,
   start_execution_time |-> PyInt(0), server_type |-> PyNone, server_id |-> PyNone]

\* Job.set_start_execution_time
set_start_execution_time(job, start_execution_time) ==
  [job EXCEPT !.start_execution_time = start_execution_time]

\* Job.set_server_type
set_server_type(job, server_type) == [job EXCEPT !.server_type = server_type]

\* Job.set_server_id
set_server_id(job, server_id) == [job EXCEPT !.server_id = server_id]

\* a Job constructed from the parsed fields: the constructor, then the setters
JobFromParsed(parsed) ==
  set_server_id(
    set_server_type(
      set_start_execution_time(
        PyJob(Field(parsed, key_id), Field(parsed, key_type),
              Field(parsed, key_user_type), Field(parsed, key_submission_time)),
        Field(parsed, key_start_execution_time)),
      Field(parsed, key_server_type)),
    Field(parsed, key_server_id))

\* the ints and the strs the jobs of a serialization run are made of
SerInts == {0 - 1} \cup {0, 7, 10, MaxSerInt}
SerStrs == {<<"S">>, <<"C", "1">>, <<"\"">>, <<"a", "\\", "b">>}

InitJob ==
  /\ worker_definitions = <<>>
  /\ POOL_PROPERTIES = <<>>
  /\ pool_priorities = <<>>
  /\ workers = <<>>
  /\ busy_until = <<>>
  /\ _events = <<>>
  /\ _event_count = 0
  /\ pending_jobs = <<>>
  /\ completed_jobs = <<>>
  /\ jobs = <<>>
  /\ popped = <<>>
  /\ status_log = <<>>
  /\ pending_log = <<>>
  /\ ret = NoEvent
  /\ pushes = 0
  /\ acquired = <<>>
  /\ allocated = None
  /\ AuxInit
  /\ pc = "job"

\* the variables a serialization run leaves alone
serIdleVars == <<kernelVars, _events, _event_count, ret, pushes, poolVars, genVars,
                 statistics, histVars, first_run>>

\* job = Job(id, type, user_type, submission_time)
JobNew ==
  /\ pc = "job"
  /\ \E id \in {0, MaxSerInt}, type \in SerStrs, user_type \in {<<"F">>, <<"\\">>},
        submission_time \in SerInts :
       job_object' = PyJob(PyInt(id), PyStr(type), PyStr(user_type), PyInt(submission_time))
  /\ pc' = "new"
  /\ UNCHANGED <<serIdleVars, json_str, parsed_job>>

\* a Job object has been constructed: its setters can be called, each on its own,
\* any number of times, before and after the job is serialized; a call on a job
\* that was serialized leaves a serialization that is no longer of this job, which
\* is dropped (pc back at "new")
JobExists == pc \in {"new", "dumped", "loaded"}

\* job.set_start_execution_time(start_execution_time)
JobSetStartExecutionTime ==
  /\ JobExists
  /\ \E start_execution_time \in {7, MaxSerInt} :
       job_object' = set_start_execution_time(job_object, PyInt(start_execution_time))
  /\ json_str' = <<>>
  /\ parsed_job' = NoneType
  /\ pc' = "new"
  /\ UNCHANGED serIdleVars

\* job.set_server_type(server_type)
JobSetServerType ==
  /\ JobExists
  /\ \E server_type \in {<<"H">>, <<"C", "\"">>} :
       job_object' = set_server_type(job_object, PyStr(server_type))
  /\ json_str' = <<>>
  /\ parsed_job' = NoneType
  /\ pc' = "new"
  /\ UNCHANGED serIdleVars

\* job.set_server_id(server_id)
JobSetServerId ==
  /\ JobExists
  /\ \E server_id \in {0, 10} :
       job_object' = set_server_id(job_object, PyInt(server_id))
  /\ json_str' = <<>>
  /\ parsed_job' = NoneType
  /\ pc' = "new"
  /\ UNCHANGED serIdleVars

\* json_str = job.to_json()
JobToJson ==
  /\ pc = "new"
  /\ json_str' = to_json(job_object)
  /\ pc' = "dumped"
  /\ UNCHANGED <<serIdleVars, job_object, parsed_job>>

\* parsed = json.loads(json_str), and a Job is constructed from the parsed fields
JobFromJson ==
  /\ pc = "dumped"
  /\ parsed_job' = JobFromParsed(loads(json_str))
  /\ pc' = "loaded"
  /\ UNCHANGED <<serIdleVars, job_object, json_str>>

NextJob ==
  \/ JobNew
  \/ JobSetStartExecutionTime
  \/ JobSetServerType
  \/ JobSetServerId
  \/ JobToJson
  \/ JobFromJson

SpecJob == InitJob /\ [][NextJob]_vars

\* a job that has been dispatched: start time, worker tier and worker id are set
IsDispatched(job) == job.server_type # PyNone /\ job.server_id # PyNone

\* C26: a Job serialized with to_dict/to_json and constructed again from the parsed
\* fields equals the original on every field, for a job that has not been dispatched
\* and for a job that has been dispatched (and for one whose setters were called
\* one without the others, or again): the text to_json returns parses back to the
\* dict of the job, and the Job constructed from it equals the job.
C26_JobRoundTrip ==
  /\ pc \in {"dumped", "loaded"} =>
        /\ loads(json_str) = to_dict(job_object)
        /\ JobFromParsed(loads(json_str)) = job_object
  /\ pc = "loaded" => parsed_job = job_object

\* a dispatched job whose fields need a sign, several digits and an escape has gone
\* through the round trip
C26_Witness ==
  /\ pc = "loaded"
  /\ parsed_job = job_object
  /\ parsed_job.start_execution_time # parsed_job.submission_time
  /\ IsDispatched(job_object)
  /\ job_object.start_execution_time = PyInt(MaxSerInt)
  /\ job_object.server_type = PyStr(<<"C", "\"">>)
  /\ job_object.server_id = PyInt(10)
  /\ job_object.submission_time = PyInt(0 - 1)
  /\ job_object.type = PyStr(<<"a", "\\", "b">>)
  /\ Len(json_str) > 100

\* a job that has not been dispatched has gone through the round trip
C26_WitnessNew ==
  /\ pc = "loaded"
  /\ parsed_job = job_object
  /\ parsed_job.server_type = PyNone
  /\ parsed_job.server_id = PyNone

----------------------------------------------------------------------------
(* The empty queue *)

\* pop on the queue of the current state
PopNow == QueuePop([events |-> _events, event_count |-> _event_count])

\* C27: pop on an empty EventQueue returns None instead of raising and leaves the
\* queue empty with size 0; a run over an empty queue terminates immediately with
\* completed, pending and the event queue all empty, no event having been handled.
C27_EmptyQueue ==
  /\ _events = <<>> =>
       /\ PopNow.ret = NoEvent
       /\ PopNow.events = <<>>
       /\ PopNow.event_count = 0
  /\ (pc = "done" /\ jobs = <<>>) =>
       /\ completed_jobs = <<>>
       /\ pending_jobs = <<>>
       /\ _events = <<>>
       /\ _event_count = 0
       /\ popped = <<>>

\* a run over an empty queue has returned, the pool having workers
C27_Witness ==
  /\ pc = "done"
  /\ jobs = <<>>
  /\ workers # <<>>
  /\ PopNow.ret = NoEvent

\* every pop step taken on an empty queue returns None and leaves the queue empty
\* with size 0 (the queue on its own, after any pushes and pops)
C27_PopOnEmptyStep ==
  [][(pc = "queue" /\ _events = <<>> /\ pushes' = pushes) =>
       (ret' = NoEvent /\ _events' = <<>> /\ _event_count' = 0 /\ popped' = popped)]_vars

----------------------------------------------------------------------------
(* Execution intervals and idle periods *)

\* the execution interval [start, end) of a dispatched job
ExecutionEnd(job) == job.start_execution_time + get_job_execution_duration(job.type)

\* C28: no worker executes two jobs at once: the execution intervals
\* [start, start + execution duration) of any two jobs of completed_jobs assigned to
\* the same worker id do not overlap.
C28_NoOverlapOnWorker ==
  \A a \in 1..Len(CompletedJobs) : \A b \in 1..Len(CompletedJobs) :
    (a # b /\ CompletedJobs[a].server_id = CompletedJobs[b].server_id) =>
      \/ ExecutionEnd(CompletedJobs[a]) <= CompletedJobs[b].start_execution_time
      \/ ExecutionEnd(CompletedJobs[b]) <= CompletedJobs[a].start_execution_time

\* the events before the last one that left worker w READY: its WORKER_READY and
\* WORKER_DONE events
IdleEvents(w) ==
  {k \in 1..(Len(popped) - 1) :
     popped[k].event_type \in {WORKER_READY, WORKER_DONE} /\ popped[k].data = w}

\* the time worker w last went idle before the event being handled, None if it never did
IdleSince(w) ==
  IF IdleEvents(w) = {} THEN None
  ELSE popped[CHOOSE k \in IdleEvents(w) : \A i \in IdleEvents(w) : i <= k].timestamp

\* C29: a worker is set back to IN_POOL only after it has been READY and idle
\* continuously for its tier's shutdown latency: a WORKER_TO_POOL event takes a worker
\* out of a status other than IN_POOL only if the worker is READY and last went idle
\* a full shutdown latency before the event's time.
C29_StaleToPoolHasNoEffect ==
  (pc = "run" /\ ret.event_type = WORKER_TO_POOL) =>
    \A k \in 1..Len(status_log) :
      (status_log[k].to = IN_POOL /\ status_log[k].from # IN_POOL) =>
        /\ status_log[k].from = READY
        /\ IdleSince(status_log[k].worker) # None
        /\ IdleSince(status_log[k].worker)
             + get_worker_shutdown_time(POOL_PROPERTIES, workers[status_log[k].worker + 1])
             <= ret.timestamp

----------------------------------------------------------------------------
(* The in-line activation of a zero-startup worker *)

\* the number of queued events of a type for worker w at a time
QueuedAt(events, event_type, w, timestamp) ==
  Cardinality({i \in 1..Len(events) :
                 /\ events[i].event_type = event_type
                 /\ events[i].data = w
                 /\ events[i].timestamp = timestamp})

\* the number of queued WORKER_READY events
QueuedReady(events) ==
  Cardinality({i \in 1..Len(events) : events[i].event_type = WORKER_READY})

\* the worker invoke_worker returns in the current state
Invoked == invoke_worker(POOL_PROPERTIES, pool_priorities, workers)

\* the step handles a JOB_SUBMITTED event that finds no READY worker, invoke_worker
\* returning a worker of a tier with startup latency 0
HotInline ==
  /\ pc = "run"
  /\ popped' # popped
  /\ ret'.event_type = JOB_SUBMITTED
  /\ ReadyWorkers = {}
  /\ Invoked # None
  /\ get_worker_activation_time(POOL_PROPERTIES, workers[Invoked + 1]) = 0

\* C30: when a JOB_SUBMITTED event at time now finds no READY worker and invoke_worker
\* returns a worker of a tier with startup latency 0, then by the end of the handler
\* the job at the head of the pending queue has been dispatched to that worker with
\* start = now, a WORKER_DONE event for the worker is queued at now + the job's
\* execution duration, and no WORKER_READY event has been added to the event queue.
C30_HotInlineDispatch ==
  [][HotInline =>
       LET head == Head(Append(pending_jobs, ret'.data))
           now == ret'.timestamp
           done == now + get_job_execution_duration(jobs[head + 1].type)
       IN /\ pending_jobs' = Tail(Append(pending_jobs, ret'.data))
          /\ completed_jobs' = Append(completed_jobs, head)
          /\ jobs'[head + 1].start_execution_time = now
          /\ jobs'[head + 1].server_id = Invoked
          /\ jobs'[head + 1].server_type = workers[Invoked + 1].worker_type
          /\ workers'[Invoked + 1].worker_status = BUSY
          /\ QueuedAt(_events', WORKER_DONE, Invoked, done)
               = QueuedAt(_events, WORKER_DONE, Invoked, done) + 1
          /\ QueuedReady(_events') = QueuedReady(_events)
          /\ Len(_events') = Len(_events)]_vars

\* a job submitted after time 0 has been dispatched in line to a zero-startup worker
\* of the second tier, which was IN_POOL when the event was popped
C30_Witness ==
  /\ pc = "run"
  /\ ret.event_type = JOB_SUBMITTED
  /\ ret.timestamp > 0
  /\ Len(status_log) = 3
  /\ status_log[1].from = IN_POOL
  /\ status_log[1].to = READY
  /\ status_log[3].to = BUSY
  /\ jobs[ret.data + 1].start_execution_time = ret.timestamp
  /\ jobs[ret.data + 1].server_id = status_log[1].worker
  /\ status_log[1].worker > 0

----------------------------------------------------------------------------
(* The activation of a worker with a startup latency *)

\* the step handles a JOB_SUBMITTED event that finds no READY worker, invoke_worker
\* returning a worker of a tier with a startup latency above 0
ColdActivation ==
  /\ pc = "run"
  /\ popped' # popped
  /\ ret'.event_type = JOB_SUBMITTED
  /\ ReadyWorkers = {}
  /\ Invoked # None
  /\ get_worker_activation_time(POOL_PROPERTIES, workers[Invoked + 1]) > 0

\* the handler queues one WORKER_READY event for the worker at now + L, and nothing else
ColdActivationQueuesReady ==
  ColdActivation =>
    LET ready == ret'.timestamp
                   + get_worker_activation_time(POOL_PROPERTIES, workers[Invoked + 1])
    IN /\ QueuedAt(_events', WORKER_READY, Invoked, ready)
            = QueuedAt(_events, WORKER_READY, Invoked, ready) + 1
       /\ QueuedReady(_events') = QueuedReady(_events) + 1
       /\ Len(_events') = Len(_events)
       /\ workers' = workers
       /\ pending_jobs' = Append(pending_jobs, ret'.data)

\* a worker whose WORKER_READY event is still queued for a later time has not left IN_POOL
NotReadyBeforeActivation ==
  pc = "run" =>
    \A i \in 1..Len(_events) :
      (_events[i].event_type = WORKER_READY /\ _events[i].timestamp > ret.timestamp)
        => workers[_events[i].data + 1].worker_status = IN_POOL

\* scenario S3 at any submission time: one tier of capacity 1 with startup 300, one job
ScenarioS3 ==
  /\ Len(worker_definitions) = 1
  /\ worker_definitions[1].worker_startup_time = 300
  /\ Len(jobs) = 1

\* C31: when a JOB_SUBMITTED event at time now finds no READY worker and invoke_worker
\* returns a worker w of a tier with startup latency L > 0, the handler queues one
\* WORKER_READY event for w at now + L and w does not become READY before that time;
\* a single job submitted at t to a pool of one cold worker starts at t + L.
C31_ColdActivation ==
  /\ [][ColdActivationQueuesReady]_vars
  /\ [](NotReadyBeforeActivation)
  /\ []((pc = "done" /\ ScenarioS3) =>
          /\ completed_jobs = <<0>>
          /\ jobs[1].start_execution_time = jobs[1].submission_time + 300)

\* the three parts of C31 taken one at a time
C31_QueuesReady == [][ColdActivationQueuesReady]_vars
C31_ScenarioS3 ==
  (pc = "done" /\ ScenarioS3) =>
     /\ completed_jobs = <<0>>
     /\ jobs[1].start_execution_time = jobs[1].submission_time + 300

----------------------------------------------------------------------------
(* The pending queue between events *)

\* the step handles a JOB_SUBMITTED event while jobs are pending: the job submitted
\* is not dispatched by that step
NewJobWaitsBehindPending ==
  (pc = "run" /\ popped' # popped /\ ret'.event_type = JOB_SUBMITTED /\ pending_jobs # <<>>)
    => /\ ret'.data \notin Range(completed_jobs')
       /\ pending_jobs'[Len(pending_jobs')] = ret'.data

\* C32: after each popped event has been fully handled, it is never the case that
\* pending_jobs is non-empty while some worker is READY, so a newly submitted job is
\* never dispatched ahead of a job that is already pending.
C32_NoReadyWorkerWhilePending ==
  /\ []((pc \in {"run", "done"}) => (pending_jobs = <<>> \/ ReadyWorkers = {}))
  /\ [][NewJobWaitsBehindPending]_vars

\* the last event handled is a JOB_SUBMITTED that found a job already pending: both
\* jobs wait, in submission order, for a worker whose activation is outstanding
C32_Witness ==
  /\ pc = "run"
  /\ ret.event_type = JOB_SUBMITTED
  /\ pending_jobs = <<0, 1>>
  /\ ret.data = 1
  /\ ReadyWorkers = {}
  /\ \E w \in 0..(Len(workers) - 1) : QueuedActivations(w) # {}

----------------------------------------------------------------------------
(* Job conservation *)

\* the number of places a seeded job is in: queued as a JOB_SUBMITTED event, pending,
\* completed, each occurrence counted
QueuedSubmissions(id) ==
  Cardinality({i \in 1..Len(_events) :
                 _events[i].event_type = JOB_SUBMITTED /\ _events[i].data = id})

Occurrences(seq, id) == Cardinality({i \in 1..Len(seq) : seq[i] = id})

\* C33: between events, each seeded job is in exactly one of three places: the event
\* queue as a JOB_SUBMITTED event, pending_jobs, or completed_jobs; no job is twice in
\* pending_jobs or twice in completed_jobs, and no job is lost.
C33_JobConservation ==
  pc \in {"run", "done"} =>
    /\ \A k \in 1..Len(jobs) :
         QueuedSubmissions(jobs[k].id) + Occurrences(pending_jobs, jobs[k].id)
           + Occurrences(completed_jobs, jobs[k].id) = 1
    /\ \A i \in 1..Len(pending_jobs) : \E k \in 1..Len(jobs) : jobs[k].id = pending_jobs[i]
    /\ \A i \in 1..Len(completed_jobs) : \E k \in 1..Len(jobs) : jobs[k].id = completed_jobs[i]

\* three seeded jobs, one in each place: completed, pending, still queued
C33_Witness ==
  /\ pc = "run"
  /\ Len(jobs) = 3
  /\ Len(completed_jobs) = 1
  /\ Len(pending_jobs) = 1
  /\ \E k \in 1..Len(jobs) : QueuedSubmissions(jobs[k].id) = 1

----------------------------------------------------------------------------
(* A job leaves the pending queue once *)

\* the step handles a WORKER_READY or WORKER_DONE event while jobs are pending: the
\* head of pending_jobs is dispatched by that step, at the time of the event, and the
\* rest of the queue is left as it was
HeadDispatchedInHandler ==
  (/\ pc = "run"
   /\ popped' # popped
   /\ ret'.event_type \in {WORKER_READY, WORKER_DONE}
   /\ pending_jobs # <<>>)
    => /\ completed_jobs' = Append(completed_jobs, Head(pending_jobs))
       /\ pending_jobs' = Tail(pending_jobs)
       /\ pending_log' = pending_log
       /\ jobs'[Head(pending_jobs) + 1].start_execution_time = ret'.timestamp

\* C34: a job popped from the head of pending_jobs by handle_worker_ready is always
\* dispatched in the same handler; it is never appended to pending_jobs a second time.
C34_PoppedJobIsDispatched ==
  /\ [][HeadDispatchedInHandler]_vars
  /\ [](\A a \in 1..Len(pending_log) : \A b \in 1..Len(pending_log) :
          pending_log[a] = pending_log[b] => a = b)

\* a WORKER_READY event has taken the head of a queue of two pending jobs
C34_Witness ==
  /\ pc = "run"
  /\ ret.event_type = WORKER_READY
  /\ pending_log = <<0, 1>>
  /\ pending_jobs = <<1>>
  /\ completed_jobs = <<0>>

----------------------------------------------------------------------------
(* Termination of the run *)

\* JobGenerator.generate_jobs from time t to end_time end on the generator g: the
\* <<generator, time>> pairs it can return with, one for every choice of the values
\* returned by generate_interarrival_time() and random.randint in its iterations
RECURSIVE GenerateJobsFrom(_, _, _)
GenerateJobsFrom(g, t, end) ==
  IF ~LoopCondition(t, end) THEN {<<g, t>>}
  ELSE UNION {GenerateJobsFrom(handle_user_request(g, t + c[1], c[2]), t + c[1], end) :
                c \in {d \in (0..MaxGap)
                              \X (1..get_num_jobs(user_types[(g.user_type_index
                                                                % Len(user_types)) + 1])) :
                         Len(g.jobs) + d[2] <= MaxJobs}}

\* the driver before the kernel is constructed: the configuration module is
\* loaded, its bags of job types and user types shuffled
InitLive ==
  /\ worker_definitions = <<>>
  /\ POOL_PROPERTIES = <<>>
  /\ pool_priorities = <<>>
  /\ workers = <<>>
  /\ busy_until = <<>>
  /\ _events = <<>>
  /\ _event_count = 0
  /\ pending_jobs = <<>>
  /\ completed_jobs = <<>>
  /\ jobs = <<>>
  /\ popped = <<>>
  /\ status_log = <<>>
  /\ pending_log = <<>>
  /\ ret = NoEvent
  /\ pushes = 0
  /\ acquired = <<>>
  /\ allocated = None
  /\ SerIdle
  /\ HistIdle
  /\ statistics = NoStatistics
  /\ first_run = NoFirstRun
  /\ job_types \in Shuffles(JoinJobTypes(job_definitions, 1))
  /\ user_types \in Shuffles(JoinUserTypes(user_definitions, 1))
  /\ user_type_index = 0
  /\ job_type_index = 0
  /\ job_id = 0
  /\ start_time = 0
  /\ end_time = 0
  /\ time = 0
  /\ calls = 0
  /\ returned = <<>>
  /\ pc = "main"

\* main: the configuration is loaded, JobGenerator() and SimState() are
\* constructed, WorkerPool.__init__ running in a fresh process, and
\* generate_jobs(0, sim_duration) makes the job list that init_jobs_in_queue is
\* called with
Construct ==
  /\ pc = "main"
  /\ worker_definitions' \in Configurations
  /\ \E pool \in {WorkerPoolInit(<<>>, worker_definitions')} :
       /\ POOL_PROPERTIES' = pool.POOL_PROPERTIES
       /\ pool_priorities' = pool.pool_priorities
       /\ workers' = pool.workers
       /\ busy_until' = [w \in 0..(Len(pool.workers) - 1) |-> None]
  /\ \E sim_duration \in 0..MaxEndTime :
       \E r \in GenerateJobsFrom([user_type_index |-> 0, job_type_index |-> 0,
                                   job_id |-> 0, jobs |-> <<>>], 0, sim_duration) :
          /\ user_type_index' = r[1].user_type_index
          /\ job_type_index' = r[1].job_type_index
          /\ job_id' = r[1].job_id
          /\ jobs' = r[1].jobs
          /\ returned' = r[1].jobs
          /\ start_time' = 0
          /\ end_time' = sim_duration
          /\ time' = r[2]
          /\ calls' = 1
  /\ pc' = "init"
  /\ UNCHANGED <<_events, _event_count, pending_jobs, completed_jobs, popped, status_log,
                 pending_log, ret, pushes, poolVars, job_types, user_types, serVars,
                 statistics, histVars, first_run>>

NextLive == Construct \/ Next

\* the loop of SimState.run has an event to handle; this is when a RunStep action is
\* enabled, a handler being defined on every kernel state and every event
LoopCanStep == pc = "run" /\ _events # <<>>

\* weak fairness of the loop body, WF_vars of the four RunStep actions taken together,
\* written out: the loop is not left for ever with an event to handle and no event
\* handled (every RunStep action appends the event it pops to popped)
RunLoopFair == []<>(~LoopCanStep) \/ []<><<popped' # popped>>_vars

\* the driver and the run loop keep taking steps while they can: main and
\* SimState.run are sequential code that nothing suspends
SpecLive ==
  /\ InitLive
  /\ [][NextLive]_vars
  /\ WF_vars(Construct)
  /\ WF_vars(init_jobs_in_queue)
  /\ RunLoopFair
  /\ WF_vars(RunReturn)
  /\ WF_vars(PrintStatistics)

\* a handled event pushes at most one new event
PushesAtMostOne == popped' # popped => Len(_events') <= Len(_events)

\* C35: for every finite job list and every configuration, SimState.run() terminates:
\* the event queue eventually becomes empty and run returns, every handled event
\* pushing at most one new event.
C35_RunTerminates ==
  /\ <>(pc = "done" /\ _events = <<>>)
  /\ [][PushesAtMostOne]_vars

\* a run of two jobs on two workers has returned after the workers were activated,
\* used and sent back to the pool
C35_Witness ==
  /\ pc = "done"
  /\ Len(completed_jobs) = 2
  /\ Len(workers) = 2
  /\ Len(popped) >= 8
  /\ \E i \in 1..Len(popped) : popped[i].event_type = WORKER_READY
  /\ \E i \in 1..Len(popped) : popped[i].event_type = WORKER_TO_POOL

(***************************************************************************)
(* C36                                                                     *)
(***************************************************************************)

AllInPool == \A w \in 1..Len(workers) : workers[w].worker_status = IN_POOL

\* the events of one type handled for worker w so far
Handled(event_type, w) ==
  {i \in 1..Len(popped) : popped[i].event_type = event_type /\ popped[i].data = w}

\* C36: when a run over a pool of total capacity at least 1 has ended (the
\* event queue is empty), the pending queue is empty and every worker is
\* IN_POOL: no worker is left READY or BUSY.
C36_EndState ==
  (pc = "done" /\ TotalCapacity >= 1)
    => /\ _events = <<>>
       /\ pending_jobs = <<>>
       /\ AllInPool

C36_Witness ==
  /\ pc = "done"
  /\ TotalCapacity >= 1
  /\ Len(completed_jobs) = 2
  /\ pending_jobs = <<>>
  /\ \E w \in 0..(Len(workers) - 1) :
        /\ Cardinality(Handled(WORKER_READY, w)) = 2
        /\ Cardinality(Handled(WORKER_TO_POOL, w)) >= 2
  /\ AllInPool

(***************************************************************************)
(* C37                                                                     *)
(***************************************************************************)

\* every event queued or handled so far is a JOB_SUBMITTED event
OnlySubmissionEvents ==
  /\ \A i \in 1..Len(_events) : _events[i].event_type = JOB_SUBMITTED
  /\ \A i \in 1..Len(popped) : popped[i].event_type = JOB_SUBMITTED

\* an iteration of the run loop that pops one event and pushes none
NoPushInStep == Len(_events') = Len(_events) - 1

\* job a was submitted before job b: at an earlier time, or at the same time
\* and earlier in the seeded list (jobs[k] is the job of id k - 1)
SubmittedBefore(a, b) ==
  \/ jobs[a + 1].submission_time < jobs[b + 1].submission_time
  \/ /\ jobs[a + 1].submission_time = jobs[b + 1].submission_time
     /\ a < b

\* every seeded job is in the pending queue once, in submission order
AllJobsPending ==
  /\ Len(pending_jobs) = Len(jobs)
  /\ \A k \in 1..Len(jobs) : Occurrences(pending_jobs, jobs[k].id) = 1
  /\ \A i \in 1..(Len(pending_jobs) - 1) :
        SubmittedBefore(pending_jobs[i], pending_jobs[i + 1])

\* job lists of up to MaxBacklogJobs jobs of class S in nondecreasing submission
\* order, ids 0, 1, 2, ...
BacklogJobLists ==
  UNION {{[i \in 1..n |-> Job(i - 1, "S", "C", f[i])] :
            f \in {g \in [1..n -> 0..MaxSubmission] :
                     \A i \in 1..(n - 1) : g[i] <= g[i + 1]}} :
         n \in 0..MaxBacklogJobs}

\* SimState.__init__ in a fresh process for a pool of at most one worker, before a
\* list of up to MaxBacklogJobs jobs is seeded
InitBacklog ==
  /\ worker_definitions \in {defs \in Configurations : SumPoolSizes(defs, 1) <= 1}
  /\ LET pool == WorkerPoolInit(<<>>, worker_definitions)
     IN /\ POOL_PROPERTIES = pool.POOL_PROPERTIES
        /\ pool_priorities = pool.pool_priorities
        /\ workers = pool.workers
        /\ busy_until = [w \in 0..(Len(pool.workers) - 1) |-> None]
  /\ _events = <<>>
  /\ _event_count = 0
  /\ pending_jobs = <<>>
  /\ completed_jobs = <<>>
  /\ jobs \in BacklogJobLists
  /\ popped = <<>>
  /\ status_log = <<>>
  /\ pending_log = <<>>
  /\ ret = NoEvent
  /\ pushes = 0
  /\ acquired = <<>>
  /\ allocated = None
  /\ AuxInit
  /\ pc = "init"

\* the driver and the run loop keep taking steps while they can
SpecBacklog ==
  /\ InitBacklog
  /\ [][Next]_vars
  /\ WF_vars(init_jobs_in_queue)
  /\ RunLoopFair
  /\ WF_vars(RunReturn)
  /\ WF_vars(PrintStatistics)

\* C37: with a pool of total capacity 0 (no tiers, or only tiers of pool_size 0)
\* a run over n seeded jobs ends after handling the n JOB_SUBMITTED events,
\* with all n jobs in the pending queue in submission order, nothing
\* completed, and no event other than the seeded ones ever pushed.
C37_ZeroCapacityRun ==
  /\ [](TotalCapacity = 0 => OnlySubmissionEvents)
  /\ [][(TotalCapacity = 0 /\ popped' # popped) => NoPushInStep]_vars
  /\ []((pc = "done" /\ TotalCapacity = 0)
          => /\ _events = <<>>
             /\ Len(popped) = Len(jobs)
             /\ AllJobsPending
             /\ completed_jobs = <<>>)
  /\ ((pc = "init" /\ TotalCapacity = 0) ~> (pc = "done" /\ TotalCapacity = 0))


(***************************************************************************)
(* C38                                                                     *)
(***************************************************************************)

\* WorkerPool() called in the same process after sim_config.CONFIG was replaced
\* by defs: the module-level POOL_PROPERTIES still holds what the earlier
\* construction stored
WorkerPoolAfter(defs) == WorkerPoolInit(POOL_PROPERTIES, defs)

TierTypes(defs) == {defs[k].worker_type : k \in 1..Len(defs)}

\* C38: the workers of a WorkerPool depend only on the configuration in force
\* when it is constructed: a pool constructed for configuration B after a pool
\* for configuration A is the pool a fresh process builds for B, with workers
\* and activation parameters only for the tiers defined in B.
C38_PoolDependsOnConfiguration ==
  pc = "init" =>
    \A B \in Configurations :
      LET pool == WorkerPoolAfter(B)
      IN /\ \A i \in 1..Len(pool.workers) : pool.workers[i].worker_type \in TierTypes(B)
         /\ \A i \in 1..Len(pool.POOL_PROPERTIES) :
               pool.POOL_PROPERTIES[i].worker_type \in TierTypes(B)
         /\ pool = WorkerPoolInit(<<>>, B)

(***************************************************************************)
(* C39                                                                     *)
(***************************************************************************)

\* the step in which the second call of generate_jobs on one JobGenerator
\* returns; returned holds the result of the first call, returned' the result
\* of the second
SecondCallReturns == calls = 2 /\ pc = "generate_jobs" /\ pc' = "generator"

\* C39: the second call of generate_jobs on the same JobGenerator returns only
\* the jobs generated for the second window: no job of the first result is in
\* the second result, and the second result is in nondecreasing submission
\* order.
C39_SecondCallReturnsOwnJobs ==
  [][SecondCallReturns =>
       /\ \A i \in 1..Len(returned) : \A j \in 1..Len(returned') :
             returned[i].id # returned'[j].id
       /\ \A i \in 1..Len(returned') : \A j \in i..Len(returned') :
             returned'[i].submission_time <= returned'[j].submission_time]_vars

----------------------------------------------------------------------------
(* SimHistogram *)

\* histogram runs: longest data list, largest value, most data points added to
\* the bins of a histogram after it was built
MaxHistLen == 3
MaxHistValue == 20
MaxDataPoints == 2

\* int(a / b) of Python for integers a >= 0 and b > 0: true division, then
\* truncation (exact for operands below 2^53)
IntOfQuotient(a, b) == a \div b

\* variant: the width is the truncated quotient itself, at least 1
BinWidthTruncated(min_val, max_val, bin_count) ==
  IF IntOfQuotient(max_val - min_val, bin_count) = 0
  THEN 1
  ELSE IntOfQuotient(max_val - min_val, bin_count)

\* self.bin_width = int((self.max_val - self.min_val) / bin_count + 1)
BinWidth(min_val, max_val, bin_count) ==
  IntOfQuotient(max_val - min_val, bin_count) + 1

\* SimHistogramBin.__init__ (the fields the counting uses)
SimHistogramBin(min_val, max_val) ==
  [min_val |-> min_val, max_val |-> max_val, total_count |-> 0, count_by_types |-> <<>>]

\* self.count_by_types.get(data_type, 0), the dict being the list of its
\* <<key, value>> items in insertion order
CountOfType(count_by_types, data_type) ==
  IF \E k \in 1..Len(count_by_types) : count_by_types[k][1] = data_type
  THEN count_by_types[CHOOSE k \in 1..Len(count_by_types) :
                        count_by_types[k][1] = data_type][2]
  ELSE 0

\* SimHistogramBin.add_data_point: a key that is present keeps its position,
\* a new key is put at the end
add_data_point(bin, data_type) ==
  [bin EXCEPT !.total_count = @ + 1,
              !.count_by_types =
                 IF \E k \in 1..Len(@) : @[k][1] = data_type
                 THEN [k \in 1..Len(@) |->
                         IF @[k][1] = data_type THEN <<data_type, @[k][2] + 1>> ELSE @[k]]
                 ELSE Append(@, <<data_type, CountOfType(@, data_type) + 1>>)]

\* SimHistogram.__init__ up to the counting loop; bin i of the code is bins[i + 1]
SimHistogramNew(values, bin_count) ==
  LET min_val == MinOf(values)
      max_val == MaxOf(values)
      bin_width == BinWidth(min_val, max_val, bin_count)
  IN [min_val |-> min_val,
      max_val |-> max_val,
      data_points_count |-> Len(values),
      bin_width |-> bin_width,
      bins |-> [k \in 1..bin_count |->
                  SimHistogramBin(min_val + (k - 1) * bin_width, min_val + k * bin_width - 1)]]

\* the sum of the total_count of the bins from bin k on
RECURSIVE SumCounts(_, _)
SumCounts(bins, k) ==
  IF k > Len(bins) THEN 0 ELSE bins[k].total_count + SumCounts(bins, k + 1)

\* idx = int((val - self.min_val) / self.bin_width)
BinIndex(h, val) == IntOfQuotient(val - h.min_val, h.bin_width)

\* non-empty lists of non-negative integers
HistLists == UNION {[1..n -> 0..MaxHistValue] : n \in 1..MaxHistLen}

InitHist ==
  /\ worker_definitions = <<>>
  /\ POOL_PROPERTIES = <<>>
  /\ pool_priorities = <<>>
  /\ workers = <<>>
  /\ busy_until = <<>>
  /\ _events = <<>>
  /\ _event_count = 0
  /\ pending_jobs = <<>>
  /\ completed_jobs = <<>>
  /\ jobs = <<>>
  /\ popped = <<>>
  /\ status_log = <<>>
  /\ pending_log = <<>>
  /\ ret = NoEvent
  /\ pushes = 0
  /\ acquired = <<>>
  /\ allocated = None
  /\ GenIdle
  /\ SerIdle
  /\ statistics = NoStatistics
  /\ first_run = NoFirstRun
  /\ hist_data \in HistLists
  /\ histogram = NoHistogram
  /\ val_index = 0
  /\ pc = "histogram"

histIdleVars == <<kernelVars, _events, _event_count, ret, pushes, poolVars, genVars,
                  serVars, statistics, first_run>>

\* SimHistogram(data): the constructor up to the counting loop, bin_count left
\* at its default 10
HistogramNew ==
  /\ pc = "histogram"
  /\ histogram' = SimHistogramNew(hist_data, 10)
  /\ val_index' = 0
  /\ pc' = "counting"
  /\ UNCHANGED <<histIdleVars, hist_data>>

\* one iteration of "for val in data"; self.bins[idx] raises IndexError when
\* idx is not an index of the list
HistogramCount ==
  /\ pc = "counting"
  /\ val_index < Len(hist_data)
  /\ \E idx \in {BinIndex(histogram, hist_data[val_index + 1])} :
       IF idx \in 0..(Len(histogram.bins) - 1)
       THEN /\ histogram' = [histogram EXCEPT !.bins[idx + 1].total_count = @ + 1]
            /\ val_index' = val_index + 1
            /\ pc' = pc
       ELSE /\ pc' = "IndexError"
            /\ UNCHANGED <<histogram, val_index>>
  /\ UNCHANGED <<histIdleVars, hist_data>>

\* the loop is over: the constructor returns
HistogramReturn ==
  /\ pc = "counting"
  /\ val_index = Len(hist_data)
  /\ pc' = "built"
  /\ UNCHANGED <<histIdleVars, histVars>>

\* bins[k].add_data_point(data_type) on a bin of the histogram that was built
HistogramAddDataPoint ==
  /\ pc = "built"
  /\ SumCounts(histogram.bins, 1) < Len(hist_data) + MaxDataPoints
  /\ \E k \in 1..Len(histogram.bins), data_type \in JobTypes :
       histogram' = [histogram EXCEPT !.bins[k] = add_data_point(@, data_type)]
  /\ UNCHANGED <<histIdleVars, hist_data, val_index, pc>>

NextHist == HistogramNew \/ HistogramCount \/ HistogramReturn \/ HistogramAddDataPoint

SpecHist == InitHist /\ [][NextHist]_vars

(***************************************************************************)
(* C40                                                                     *)
(***************************************************************************)

\* ten bins of one integer width, one after the other, from min(data) to at
\* least max(data)
TenEqualBins ==
  /\ Len(histogram.bins) = 10
  /\ histogram.bin_width >= 1
  /\ \A k \in 1..10 :
        histogram.bins[k].max_val - histogram.bins[k].min_val + 1 = histogram.bin_width
  /\ \A k \in 1..9 : histogram.bins[k + 1].min_val = histogram.bins[k].max_val + 1
  /\ histogram.bins[1].min_val = MinOf(hist_data)
  /\ histogram.bins[10].max_val >= MaxOf(hist_data)

\* the bin index of every value is in 0..9 and the range of that bin contains the value
ValuesInTheirBins ==
  \A i \in 1..Len(hist_data) :
    LET idx == BinIndex(histogram, hist_data[i])
    IN /\ idx \in 0..9
       /\ histogram.bins[idx + 1].min_val <= hist_data[i]
       /\ hist_data[i] <= histogram.bins[idx + 1].max_val

\* each bin counts the values of its range, and the counts add up to len(data)
CountsAddUp ==
  /\ \A k \in 1..Len(histogram.bins) :
        histogram.bins[k].total_count =
          Cardinality({i \in 1..Len(hist_data) :
                        /\ histogram.bins[k].min_val <= hist_data[i]
                        /\ hist_data[i] <= histogram.bins[k].max_val})
  /\ SumCounts(histogram.bins, 1) = Len(hist_data)

\* the constructor returns in this step
HistogramReturned == pc = "counting" /\ pc' = "built"

\* C40: for a non-empty list of non-negative integers and bin_count = 10,
\* SimHistogram creates exactly 10 bins of equal integer width covering
\* [min, max], gives every value a bin index in 0..9 whose [min_val, max_val]
\* range contains the value (no index out of range, also when all values are
\* equal), and the bin counts sum to the number of values.
C40_HistogramBins ==
  /\ [](pc # "IndexError")
  /\ [](pc \in {"counting", "built"} => TenEqualBins /\ ValuesInTheirBins)
  /\ [](pc = "counting" => SumCounts(histogram.bins, 1) = val_index)
  /\ [][HistogramReturned => CountsAddUp']_vars

\* a list of three values whose largest value lands in the last bin of a
\* histogram with bins wider than 1
C40_Witness ==
  /\ pc = "built"
  /\ Len(hist_data) = 3
  /\ histogram.bin_width = 2
  /\ histogram.bins[10].total_count = 1
  /\ histogram.bins[1].total_count = 1
  /\ SumCounts(histogram.bins, 1) = 3

\* a list of equal values: all of them in bin 0
C40_WitnessEqualValues ==
  /\ pc = "built"
  /\ Len(hist_data) = 3
  /\ histogram.min_val = histogram.max_val
  /\ histogram.bins[1].total_count = 3

====
